---- MODULE Spec2Model ----
(***************************************************************************)
(* A model of msmoiz/json: the tokenizer (src/json/tokenizer.rs), the      *)
(* recursive-descent parser (src/json/parser.rs), the value tree and its   *)
(* pretty-printer (src/json/types.rs) and the entry point json::parse      *)
(* (src/json/mod.rs).  Every function of the crate is pure, so each is an  *)
(* operator here; the state machine feeds bounded inputs through them.     *)
(*                                                                         *)
(* A character is a one-character string, except the two characters TLA+   *)
(* cannot write in a string, which are named: "DEL" is U+007F and "BS" is  *)
(* U+0008.  A text is a sequence of characters.                            *)
(*                                                                         *)
(* Where a function of the source binds the result of a call and then      *)
(* reads it more than once, the operator here hands the result to a second *)
(* operator that reads it as a parameter (object, then object_of).          *)
(***************************************************************************)
EXTENDS Integers, Sequences, FiniteSets, TLC

VARIABLES text, tokens, lexed, calls, parsed, retext, how, reparsed, scanned, valid, pc

vars == <<text, tokens, lexed, calls, parsed, retext, how, reparsed, scanned, valid, pc>>

(***************************************************************************)
(* types.rs: Result, Error, Token, Value                                   *)
(***************************************************************************)
Ok(x) == [ok |-> TRUE, val |-> x]

Err == [ok |-> FALSE, panic |-> FALSE]

\* An index or slice out of range: the thread panics, no Result is returned.
Panic == [ok |-> FALSE, panic |-> TRUE]

Punct(c) == [kind |-> "Punct", char |-> c]

StringTok(s) == [kind |-> "String", string |-> s]

NumberTok(n) == [kind |-> "Number", number |-> n]

TrueTok == [kind |-> "True"]

FalseTok == [kind |-> "False"]

NullTok == [kind |-> "Null"]

StringVal(s) == [type |-> "String", string |-> s]

NumberVal(n) == [type |-> "Number", number |-> n]

BooleanVal(b) == [type |-> "Boolean", bool |-> b]

NullVal == [type |-> "Null"]

\* Object(HashMap<String, Value>): a function from the keys to the values.
ObjectVal(m) == [type |-> "Object", members |-> m]

ArrayVal(s) == [type |-> "Array", items |-> s]

Node(v, n) == [value |-> v, len |-> n]

\* HashMap::new()
EmptyMap == [k \in {} |-> NullVal]

(***************************************************************************)
(* Slices of a Vec or a &str, zero-based as in the source.                 *)
(***************************************************************************)
\* s[n..]; every caller has checked n <= s.len()
From(s, n) == SubSeq(s, n + 1, Len(s))

\* matches!(tokens.get(i), Some(Token::Punct(char)) if char == &c)
PunctAt(toks, i, c) ==
    /\ i < Len(toks)
    /\ toks[i + 1].kind = "Punct"
    /\ toks[i + 1].char = c

\* &tokens[n..] is in range: its start is not past the end of the tokens
InRange(toks, n) == n <= Len(toks)

\* s.get(i) is Some(c) with c in set
CharAt(s, i, set) == i < Len(s) /\ s[i + 1] \in set

(***************************************************************************)
(* parser.rs                                                               *)
(***************************************************************************)
RECURSIVE value(_), object(_), members(_), member(_), array(_), elements(_)

element(toks) == value(toks)

json(toks) == element(toks)

value_of(toks, token) ==
    CASE token.kind = "String" -> Ok(Node(StringVal(token.string), 1))
      [] token.kind = "Number" -> Ok(Node(NumberVal(token.number), 1))
      [] token.kind = "True" -> Ok(Node(BooleanVal(TRUE), 1))
      [] token.kind = "False" -> Ok(Node(BooleanVal(FALSE), 1))
      [] token.kind = "Null" -> Ok(Node(NullVal, 1))
      [] token.kind = "Punct" /\ token.char = "[" -> array(toks)
      [] token.kind = "Punct" /\ token.char = "{" -> object(toks)
      [] OTHER -> Err

value(toks) == IF Len(toks) = 0 THEN Err ELSE value_of(toks, toks[1])

\* a member that takes a missing value for null, and no token for it
member_of_null(string, elem) ==
    IF ~elem.ok THEN Ok([key |-> string, node |-> Node(NullVal, 0)])
    ELSE Ok([key |-> string, node |-> elem.val])

\* Ok((string.clone(), element)), written Ok([key |-> string, node |-> element])
member_of(string, elem) ==
    IF ~elem.ok THEN elem ELSE Ok([key |-> string, node |-> elem.val])

\* a member that does not look for the colon
member_unchecked(toks) ==
    IF Len(toks) > 0 /\ toks[1].kind = "String"
    THEN IF ~InRange(toks, 2) THEN Panic
         ELSE member_of(toks[1].string, element(From(toks, 2)))
    ELSE Err

member(toks) ==
    IF Len(toks) > 0 /\ toks[1].kind = "String"
    THEN IF ~PunctAt(toks, 1, ":") THEN Err
         ELSE IF ~InRange(toks, 2) THEN Panic
         ELSE member_of(toks[1].string, element(From(toks, 2)))
    ELSE Err

\* HashMap::from([member])
MapFrom(mem) == [k \in {mem.key} |-> mem.node]

\* HashMap::from([member]).into_iter().chain(members).collect(): an entry of
\* members replaces the entry of the same key that came before it.
ChainCollect(mem, rest) ==
    [k \in {mem.key} \cup DOMAIN rest |->
        IF k \in DOMAIN rest THEN rest[k] ELSE mem.node]

\* match members(&tokens[member.1.len + 2 + 1..])
members_chain(mem, more) ==
    IF more.ok THEN Ok(ChainCollect(mem, more.val))
    ELSE IF more.panic THEN more
    ELSE Ok(MapFrom(mem))

members_after(toks, mem) ==
    IF ~mem.ok THEN mem
    ELSE IF ~PunctAt(toks, mem.val.node.len + 2, ",") THEN Ok(MapFrom(mem.val))
    ELSE IF ~InRange(toks, mem.val.node.len + 2 + 1) THEN Panic
    ELSE members_chain(mem.val, members(From(toks, mem.val.node.len + 2 + 1)))

members(toks) == members_after(toks, member(toks))

RECURSIVE SumLen(_, _, _)
\* members.iter().fold(acc, |acc, mem| acc + mem.1.len + 2) over the entries
\* of the map, in whatever order the map iterates (the sum is the same)
SumLen(map, keys, acc) ==
    IF keys = {} THEN acc
    ELSE SumLen(map, keys \ {CHOOSE x \in keys : TRUE},
                acc + map[CHOOSE x \in keys : TRUE].len + 2)

\* members.len() - 1, folded with the lengths of the entries of the map
ObjectMemLen(map) == SumLen(map, DOMAIN map, Cardinality(DOMAIN map) - 1)

object_close(toks, map, mem_len) ==
    IF PunctAt(toks, mem_len + 1, "}")
    THEN Ok(Node(ObjectVal([k \in DOMAIN map |-> map[k].value]), mem_len + 2))
    ELSE Err

\* members.len() - 1 underflows when the map is empty: the debug build
\* panics there, the release build wraps
object_of(toks, mems) ==
    IF ~mems.ok THEN mems
    ELSE IF Cardinality(DOMAIN mems.val) = 0 THEN Panic
    ELSE object_close(toks, mems.val, ObjectMemLen(mems.val))

object(toks) ==
    IF ~PunctAt(toks, 0, "{") THEN Err
    ELSE IF PunctAt(toks, 1, "}") THEN Ok(Node(ObjectVal(EmptyMap), 2))
    ELSE IF ~InRange(toks, 1) THEN Panic
    ELSE object_of(toks, members(From(toks, 1)))

(***************************************************************************)
(* The same steps of members and object with the order in which the        *)
(* HashMap iterates written out: o is a sequence of the keys of the map,   *)
(* each key once.                                                          *)
(***************************************************************************)
\* the orders in which a map with these keys can iterate
IterationOrders(keys) ==
    {o \in [1..Cardinality(keys) -> keys] : \A i, j \in DOMAIN o : i # j => o[i] # o[j]}

\* a fold step that does not commute
FoldStep_doubling(acc, node) == acc + acc + node.len + 2

\* |acc, mem| acc + mem.1.len + 2
FoldStep(acc, node) == acc + node.len + 2

RECURSIVE FoldIn(_, _, _, _)
\* members.iter().fold(acc, ...) from the i-th entry on, iterating in order o
FoldIn(map, o, i, acc) ==
    IF i > Len(o) THEN acc ELSE FoldIn(map, o, i + 1, FoldStep(acc, map[o[i]]))

\* every mem_len the fold can give
MemLens(map) == {FoldIn(map, o, 1, Cardinality(DOMAIN map) - 1) : o \in IterationOrders(DOMAIN map)}

\* HashMap::insert
Insert(map, k, v) == [x \in DOMAIN map \cup {k} |-> IF x = k THEN v ELSE map[x]]

RECURSIVE CollectFrom(_, _, _)
\* collect() into a HashMap: the pairs are inserted one after the other
CollectFrom(pairs, i, map) ==
    IF i > Len(pairs) THEN map
    ELSE CollectFrom(pairs, i + 1, Insert(map, pairs[i].key, pairs[i].node))

\* map.into_iter(), iterating in order o
Entries(map, o) == [i \in DOMAIN o |-> [key |-> o[i], node |-> map[o[i]]]]

\* every map HashMap::from([member]).into_iter().chain(members).collect()
\* can give
ChainCollects(mem, rest) ==
    {CollectFrom(<<mem>> \o Entries(rest, o), 1, EmptyMap) : o \in IterationOrders(DOMAIN rest)}

\* .map(|mem| (mem.0, mem.1.value))
ValueEntries(pairs) == [i \in DOMAIN pairs |-> [key |-> pairs[i].key, node |-> pairs[i].node.value]]

\* every map members.into_iter().map(...).collect() can give
ObjectCollects(map) ==
    {CollectFrom(ValueEntries(Entries(map, o)), 1, EmptyMap) : o \in IterationOrders(DOMAIN map)}

\* an elements that fails when the list after the comma fails
elements_chain_strict(elem, more) ==
    IF more.ok THEN Ok(<<elem>> \o more.val) ELSE more

\* an elements that puts the first element after the others
elements_chain_last(elem, more) ==
    IF more.ok THEN Ok(more.val \o <<elem>>)
    ELSE IF more.panic THEN more
    ELSE Ok(<<elem>>)

\* match elements(&tokens[element.len + 1..])
elements_chain(elem, more) ==
    IF more.ok THEN Ok(<<elem>> \o more.val)
    ELSE IF more.panic THEN more
    ELSE Ok(<<elem>>)

elements_after(toks, elem) ==
    IF ~elem.ok THEN elem
    ELSE IF ~PunctAt(toks, elem.val.len, ",") THEN Ok(<<elem.val>>)
    ELSE IF ~InRange(toks, elem.val.len + 1) THEN Panic
    ELSE elements_chain(elem.val, elements(From(toks, elem.val.len + 1)))

elements(toks) == elements_after(toks, element(toks))

RECURSIVE SumElemLen(_, _, _)
\* elements.iter().fold(acc, |acc, elem| acc + elem.len)
SumElemLen(elems, i, acc) ==
    IF i > Len(elems) THEN acc
    ELSE SumElemLen(elems, i + 1, acc + elems[i].len)

\* elements.len() - 1, folded with the lengths of the elements
ArrayElemLen(elems) == SumElemLen(elems, 1, Len(elems) - 1)

array_close(toks, elems, elem_len) ==
    IF PunctAt(toks, elem_len + 1, "]")
    THEN Ok(Node(ArrayVal([i \in 1..Len(elems) |-> elems[i].value]), elem_len + 2))
    ELSE Err

\* elements.len() - 1 underflows when the vector is empty
array_of(toks, elems) ==
    IF ~elems.ok THEN elems
    ELSE IF Len(elems.val) = 0 THEN Panic
    ELSE array_close(toks, elems.val, ArrayElemLen(elems.val))

array(toks) ==
    IF ~PunctAt(toks, 0, "[") THEN Err
    ELSE IF PunctAt(toks, 1, "]") THEN Ok(Node(ArrayVal(<<>>), 2))
    ELSE IF ~InRange(toks, 1) THEN Panic
    ELSE array_of(toks, elements(From(toks, 1)))

\* a parse that does not compare the length consumed with the length of the
\* input
parse_any(toks, j) == IF ~j.ok THEN j ELSE Ok(j.val.value)

\* (json.len == tokens.len()).then_some(json.value).ok_or(Error)
parse_of(toks, j) ==
    IF ~j.ok THEN j
    ELSE IF j.val.len = Len(toks) THEN Ok(j.val.value) ELSE Err

parse(toks) == parse_of(toks, json(toks))

(***************************************************************************)
(* The f64 of Token::Number and Value::Number.  A finite double is held as *)
(* sign, mant and exp, meaning mant * 10^exp with mant not a multiple of   *)
(* ten (zero is mant 0, exp 0, and keeps its sign); this is exact for the  *)
(* literals checked here, whose significant digits are few.                *)
(***************************************************************************)
Finite(neg, mant, exp) == [class |-> "finite", neg |-> neg, mant |-> mant, exp |-> exp]

Infinite(neg) == [class |-> "inf", neg |-> neg, mant |-> 0, exp |-> 0]

\* f64::MAX is 1.797...e308; the least positive double is 4.9e-324
F64_MAX_10_EXP == 308

F64_MIN_10_EXP == -324

Digits == {"0", "1", "2", "3", "4", "5", "6", "7", "8", "9"}

DigitValue(c) ==
    CASE c = "0" -> 0 [] c = "1" -> 1 [] c = "2" -> 2 [] c = "3" -> 3 [] c = "4" -> 4
      [] c = "5" -> 5 [] c = "6" -> 6 [] c = "7" -> 7 [] c = "8" -> 8 [] c = "9" -> 9

DigitChar(n) ==
    CASE n = 0 -> "0" [] n = 1 -> "1" [] n = 2 -> "2" [] n = 3 -> "3" [] n = 4 -> "4"
      [] n = 5 -> "5" [] n = 6 -> "6" [] n = 7 -> "7" [] n = 8 -> "8" [] n = 9 -> "9"

RECURSIVE DecimalValue(_, _)
\* the number a run of digits writes, acc being the value of the digits read
DecimalValue(ds, acc) ==
    IF ds = <<>> THEN acc
    ELSE DecimalValue(Tail(ds), 10 * acc + DigitValue(Head(ds)))

RECURSIVE DecimalDigits(_)
\* the digits of n > 0, most significant first
DecimalDigits(n) ==
    IF n < 10 THEN <<DigitChar(n)>>
    ELSE Append(DecimalDigits(n \div 10), DigitChar(n % 10))

RECURSIVE Normalize(_, _, _)
\* mant * 10^exp with the trailing zeros of mant moved into exp
Normalize(neg, mant, exp) ==
    IF mant = 0 THEN Finite(neg, 0, 0)
    ELSE IF mant % 10 = 0 THEN Normalize(neg, mant \div 10, exp + 1)
    ELSE Finite(neg, mant, exp)

\* the first four significant digits ds begins with, as a number in 1000..9999
Lead4(ds) ==
    IF Len(ds) >= 4 THEN DecimalValue(SubSeq(ds, 1, 4), 0)
    ELSE DecimalValue(ds \o [i \in 1..(4 - Len(ds)) |-> "0"], 0)

\* x, of the digits ds, is order + 1 digits long before the decimal point
RoundAt(x, ds, order) ==
    IF order > F64_MAX_10_EXP THEN Infinite(x.neg)
    ELSE IF order = F64_MAX_10_EXP /\ Lead4(ds) > 1797 THEN Infinite(x.neg)
    ELSE IF order < F64_MIN_10_EXP THEN Finite(x.neg, 0, 0)
    ELSE x

RoundDigits(x, ds) == RoundAt(x, ds, Len(ds) + x.exp - 1)

\* Rounding to the nearest double: beyond f64::MAX the result is infinite,
\* below the least positive double it is zero.
RoundF64(x) == IF x.mant = 0 THEN x ELSE RoundDigits(x, DecimalDigits(x.mant))

\* the first offset from i on at which s holds no character of the set
RunEnd(s, i, set) ==
    CHOOSE k \in i..Len(s) :
        /\ ~CharAt(s, k, set)
        /\ \A j \in i..(k - 1) : CharAt(s, j, set)

\* [0-9]* from offset i on: how many digits s holds there
DigitRun(s, i) == IF i >= Len(s) THEN 0 ELSE RunEnd(s, i, Digits) - i

\* 0* from offset i on: how many zeros s holds there
ZeroRun(s, i) == IF i >= Len(s) THEN 0 ELSE RunEnd(s, i, {"0"}) - i

\* -?
SignEnd(s) == IF CharAt(s, 0, {"-"}) THEN 1 ELSE 0

\* ([0-9]+) from offset i0 on
IntEnd(s, i0) == i0 + DigitRun(s, i0)

FracEndOf(i1, run) == IF run > 0 THEN i1 + 1 + run ELSE i1

\* (\.[0-9]+)? from offset i1 on
FracEnd(s, i1) == FracEndOf(i1, IF CharAt(s, i1, {"."}) THEN DigitRun(s, i1 + 1) ELSE 0)

\* [+-]? after the e at offset i2
ExpSign(s, i2) == IF CharAt(s, i2 + 1, {"+", "-"}) THEN 1 ELSE 0

ExpEndOf(i2, sg, run) == IF run > 0 THEN i2 + 1 + sg + run ELSE i2

\* ([eE][+-]?[0-9]+)? from offset i2 on
ExpEnd(s, i2, sg) ==
    ExpEndOf(i2, sg, IF CharAt(s, i2, {"e", "E"}) THEN DigitRun(s, i2 + 1 + sg) ELSE 0)

Parts4(s, i0, i1, i2, sg) ==
    [sign |-> i0, int |-> i1, frac |-> i2, esign |-> sg, exp |-> ExpEnd(s, i2, sg)]

Parts3(s, i0, i1, i2) == Parts4(s, i0, i1, i2, ExpSign(s, i2))

Parts2(s, i0, i1) == Parts3(s, i0, i1, FracEnd(s, i1))

Parts1(s, i0) == Parts2(s, i0, IntEnd(s, i0))

\* What ^-?([0-9]+)(\.[0-9]+)?([eE][+-]?[0-9]+)? matches at the start of s:
\* the offsets at which the sign, the integer digits, the fraction and the
\* exponent end (a part that is absent ends where it starts).
NumberParts(s) == Parts1(s, SignEnd(s))

\* how many zeros a run of digits ends with
TrailingZeros(ds) ==
    Len(ds) - (CHOOSE k \in 0..Len(ds) :
                  /\ k = 0 \/ ds[k] # "0"
                  /\ \A j \in (k + 1)..Len(ds) : ds[j] = "0")

\* the digits of ds between its leading zeros and its tz trailing zeros
Significant(ds, tz) ==
    IF tz = Len(ds) THEN <<>> ELSE SubSeq(ds, ZeroRun(ds, 0) + 1, Len(ds) - tz)

\* the digits ds, tz of them trailing zeros, scaled by ten to the exp
Scaled(neg, ds, tz, exp) ==
    RoundF64(Normalize(neg, DecimalValue(Significant(ds, tz), 0), exp + tz))

ExponentOf(s, p) ==
    IF p.exp = p.frac THEN 0
    ELSE IF p.esign = 1 /\ s[p.frac + 2] = "-"
    THEN 0 - DecimalValue(SubSeq(s, p.frac + 2 + p.esign, p.exp), 0)
    ELSE DecimalValue(SubSeq(s, p.frac + 2 + p.esign, p.exp), 0)

FractionLen(p) == IF p.frac > p.int THEN p.frac - p.int - 1 ELSE 0

SignificantDigits(s, p) == SubSeq(s, p.sign + 1, p.int) \o SubSeq(s, p.int + 2, p.frac)

ParseDigits(s, p, ds) ==
    Scaled(p.sign = 1, ds, TrailingZeros(ds), ExponentOf(s, p) - FractionLen(p))

ParseParts(s, p) == ParseDigits(s, p, SignificantDigits(s, p))

\* str::parse::<f64>() of a string NUMBER_RE matched (it never fails on one):
\* the digits of the integer part and of the fraction, scaled by the exponent
ParseF64(s) == ParseParts(s, NumberParts(s))

(***************************************************************************)
(* tokenizer.rs                                                            *)
(***************************************************************************)
HexDigits == Digits \cup {"a", "b", "c", "d", "e", "f", "A", "B", "C", "D", "E", "F"}

\* [:cntrl:] of the regex crate: U+0000 to U+001F, and U+007F
Cntrl == {"\n", "\r", "\t", "BS", "DEL"}

Quote == "\""

Backslash == "\\"

Whitespace == {" ", "\n", "\r", "\t"}

Puncts == {"{", "}", "[", "]", ",", ":"}

NumberEnd(p) == IF p.int = p.sign THEN -1 ELSE p.exp

\* a number pattern whose match takes a '.' that no digit follows
NUMBER_RE_dot(s) ==
    IF NumberEnd(NumberParts(s)) # -1 /\ CharAt(s, NumberEnd(NumberParts(s)), {"."})
    THEN NumberEnd(NumberParts(s)) + 1
    ELSE NumberEnd(NumberParts(s))

\* NUMBER_RE.find(text): the end of the match, -1 for None
\* ^-?([0-9]+)(\.[0-9]+)?([eE][+-]?[0-9]+)?
NUMBER_RE(s) == NumberEnd(NumberParts(s))

ZerosThenDigit(s, i0, z) == z > 0 /\ CharAt(s, i0 + z, Digits \ {"0"})

LeadingZeroFrom(s, i0) == ZerosThenDigit(s, i0, ZeroRun(s, i0))

\* LEADING_ZERO_RE.find(mat).is_some(): ^-?0+[1-9]
LEADING_ZERO_RE(s) == LeadingZeroFrom(s, SignEnd(s))

RECURSIVE StringBody(_, _)
\* ((\\(["\\/bfnrt]|u[0-9a-fA-F]{4}))|[^"\\[:cntrl:]]+)*" from offset i on:
\* the end of the match, -1 for None
StringBody(s, i) ==
    IF i >= Len(s) THEN -1
    ELSE IF s[i + 1] = Quote THEN i + 1
    ELSE IF s[i + 1] = Backslash
    THEN IF CharAt(s, i + 1, {Quote, Backslash, "/", "b", "f", "n", "r", "t"})
         THEN StringBody(s, i + 2)
         ELSE IF /\ CharAt(s, i + 1, {"u"})
                 /\ \A k \in 2..5 : CharAt(s, i + k, HexDigits)
         THEN StringBody(s, i + 6)
         ELSE -1
    ELSE IF s[i + 1] \in Cntrl THEN -1
    ELSE StringBody(s, i + 1)

\* STRING_RE.find(text): the end of the match, -1 for None
STRING_RE(s) == IF CharAt(s, 0, {Quote}) THEN StringBody(s, 1) ELSE -1

\* text.strip_prefix(prefix).is_some()
StartsWith(s, prefix) ==
    Len(s) >= Len(prefix) /\ SubSeq(s, 1, Len(prefix)) = prefix

\* iter::once(token).chain(rest?).collect()
Chain(token, rest) == IF rest.ok THEN Ok(<<token>> \o rest.val) ELSE rest

RECURSIVE tokenize(_)

\* a match_whitespace that emits a token for the character
match_whitespace_token(s) == IF tokenize(From(s, 1)).ok
                             THEN Ok(<<Punct(s[1])>> \o tokenize(From(s, 1)).val)
                             ELSE tokenize(From(s, 1))

match_whitespace(s) == tokenize(From(s, 1))

match_punct(s) == Chain(Punct(s[1]), tokenize(From(s, 1)))

\* a match_true that takes the keyword for matched once tru is there
match_true_prefix(s) ==
    IF ~StartsWith(s, <<"t", "r", "u">>) THEN Err
    ELSE Chain(TrueTok, tokenize(From(s, 4)))

match_true(s) ==
    IF ~StartsWith(s, <<"t", "r", "u", "e">>) THEN Err
    ELSE Chain(TrueTok, tokenize(From(s, 4)))

match_false(s) ==
    IF ~StartsWith(s, <<"f", "a", "l", "s", "e">>) THEN Err
    ELSE Chain(FalseTok, tokenize(From(s, 5)))

match_null(s) ==
    IF ~StartsWith(s, <<"n", "u", "l", "l">>) THEN Err
    ELSE Chain(NullTok, tokenize(From(s, 4)))

\* match LEADING_ZERO_RE.find(mat.as_str())
number_matched(s, end, mat) ==
    IF LEADING_ZERO_RE(mat) THEN Err
    ELSE Chain(NumberTok(ParseF64(mat)), tokenize(From(s, end)))

\* match NUMBER_RE.find(text)
number_found(s, end) ==
    IF end = -1 THEN Err ELSE number_matched(s, end, SubSeq(s, 1, end))

match_number(s) == number_found(s, NUMBER_RE(s))

\* a match_string whose payload is the whole match, quotes included
string_found_quoted(s, end) ==
    IF end = -1 THEN Err
    ELSE Chain(StringTok(SubSeq(s, 1, end)), tokenize(From(s, end)))

\* match STRING_RE.find(text)
string_found(s, end) ==
    IF end = -1 THEN Err
    ELSE Chain(StringTok(SubSeq(s, 2, end - 1)), tokenize(From(s, end)))

match_string(s) == string_found(s, STRING_RE(s))

\* match char
dispatch(s, char) ==
    CASE char = Quote -> match_string(s)
      [] char = "t" -> match_true(s)
      [] char = "f" -> match_false(s)
      [] char = "n" -> match_null(s)
      [] char \in {"-"} \cup Digits -> match_number(s)
      [] char \in Whitespace -> match_whitespace(s)
      [] char \in Puncts -> match_punct(s)
      [] OTHER -> Err

\* match text.chars().next()
tokenize(s) == IF s = <<>> THEN Ok(<<>>) ELSE dispatch(s, s[1])

(***************************************************************************)
(* mod.rs                                                                  *)
(***************************************************************************)
parse_tokens(toks) == IF ~toks.ok THEN Err ELSE parse(toks.val)

\* json::parse(text)
json_parse(s) == parse_tokens(tokenize(s))

(***************************************************************************)
(* One dispatch step of tokenize: the match_* function either returns (the *)
(* text is empty, or no lexeme matches) or calls tokenize on the text      *)
(* without its first drop characters.                                      *)
(***************************************************************************)
Return == [recurses |-> FALSE, drop |-> 0]

Recurse(n) == [recurses |-> TRUE, drop |-> n]

\* a match_whitespace that calls tokenize on the same text
whitespace_step_same(s) == Recurse(0)

\* tokenize(&text[1..])
whitespace_step(s) == Recurse(1)

\* .chain(tokenize(&text[1..])?)
punct_step(s) == Recurse(1)

\* match text.strip_prefix(keyword): .chain(tokenize(substring)?)
keyword_step(s, keyword) == IF StartsWith(s, keyword) THEN Recurse(Len(keyword)) ELSE Return

\* match NUMBER_RE.find(text): .chain(tokenize(&text[mat.end()..])?)
number_step(s, end) ==
    IF end = -1 THEN Return
    ELSE IF LEADING_ZERO_RE(SubSeq(s, 1, end)) THEN Return
    ELSE Recurse(end)

\* match STRING_RE.find(text): .chain(tokenize(&text[mat.end()..])?)
string_step(s, end) == IF end = -1 THEN Return ELSE Recurse(end)

\* match char
step_of(s, char) ==
    CASE char = Quote -> string_step(s, STRING_RE(s))
      [] char = "t" -> keyword_step(s, <<"t", "r", "u", "e">>)
      [] char = "f" -> keyword_step(s, <<"f", "a", "l", "s", "e">>)
      [] char = "n" -> keyword_step(s, <<"n", "u", "l", "l">>)
      [] char \in {"-"} \cup Digits -> number_step(s, NUMBER_RE(s))
      [] char \in Whitespace -> whitespace_step(s)
      [] char \in Puncts -> punct_step(s)
      [] OTHER -> Return

\* match text.chars().next()
Step(s) == IF s = <<>> THEN Return ELSE step_of(s, s[1])

RECURSIVE RecursiveSteps(_, _)
\* how many times tokenize calls itself on s, counted up to fuel calls
RecursiveSteps(s, fuel) ==
    IF fuel = 0 \/ ~Step(s).recurses THEN 0
    ELSE 1 + RecursiveSteps(From(s, Step(s).drop), fuel - 1)

(***************************************************************************)
(* parser/tokenizer.rs: the tokenizer of the parser module.  It is the     *)
(* tokenizer of the json module with another NUMBER_RE, and it recurses    *)
(* into tokenize_text.                                                     *)
(***************************************************************************)
\* (0|[1-9][0-9]*) from offset i0 on: the first alternative that matches
parser_IntEnd(s, i0) ==
    IF CharAt(s, i0, {"0"}) THEN i0 + 1
    ELSE IF CharAt(s, i0, Digits \ {"0"}) THEN i0 + DigitRun(s, i0)
    ELSE i0

\* NUMBER_RE.find(text): the end of the match, -1 for None
\* ^-?(0|[1-9][0-9]*)(\.[0-9]+)?([eE][+-]?[0-9]+)?
parser_NUMBER_RE(s) == NumberEnd(Parts2(s, SignEnd(s), parser_IntEnd(s, SignEnd(s))))

RECURSIVE tokenize_text(_)

\* iter::once(token).chain(tokenize_text(rest)?).collect()
parser_chain(token, rest) == Chain(token, tokenize_text(rest))

parser_match_whitespace(s) == tokenize_text(From(s, 1))

parser_match_punct(s) == parser_chain(Punct(s[1]), From(s, 1))

parser_match_true(s) ==
    IF ~StartsWith(s, <<"t", "r", "u", "e">>) THEN Err
    ELSE parser_chain(TrueTok, From(s, 4))

parser_match_false(s) ==
    IF ~StartsWith(s, <<"f", "a", "l", "s", "e">>) THEN Err
    ELSE parser_chain(FalseTok, From(s, 5))

parser_match_null(s) ==
    IF ~StartsWith(s, <<"n", "u", "l", "l">>) THEN Err
    ELSE parser_chain(NullTok, From(s, 4))

\* match LEADING_ZERO_RE.find(mat.as_str())
parser_number_matched(s, end, mat) ==
    IF LEADING_ZERO_RE(mat) THEN Err
    ELSE parser_chain(NumberTok(ParseF64(mat)), From(s, end))

\* match NUMBER_RE.find(text)
parser_number_found(s, end) ==
    IF end = -1 THEN Err ELSE parser_number_matched(s, end, SubSeq(s, 1, end))

parser_match_number(s) == parser_number_found(s, parser_NUMBER_RE(s))

\* match STRING_RE.find(text)
parser_string_found(s, end) ==
    IF end = -1 THEN Err
    ELSE parser_chain(StringTok(SubSeq(s, 2, end - 1)), From(s, end))

parser_match_string(s) == parser_string_found(s, STRING_RE(s))

\* match char
parser_dispatch(s, char) ==
    CASE char = Quote -> parser_match_string(s)
      [] char = "t" -> parser_match_true(s)
      [] char = "f" -> parser_match_false(s)
      [] char = "n" -> parser_match_null(s)
      [] char \in {"-"} \cup Digits -> parser_match_number(s)
      [] char \in Whitespace -> parser_match_whitespace(s)
      [] char \in Puncts -> parser_match_punct(s)
      [] OTHER -> Err

\* match text.chars().next()
tokenize_text(s) == IF s = <<>> THEN Ok(<<>>) ELSE parser_dispatch(s, s[1])

(***************************************************************************)
(* parser/validator.rs.  Every function returns a pair (bool, usize); a    *)
(* slice whose start is past the end of the tokens panics.  The validator  *)
(* looks at the variant of a token only.                                   *)
(***************************************************************************)
Pair(b, n) == [ok |-> b, len |-> n, panic |-> FALSE]

Unwound == [ok |-> FALSE, len |-> 0, panic |-> TRUE]

RECURSIVE validator_value(_), validator_object(_), validator_members(_)
RECURSIVE validator_member(_), validator_array(_), validator_elements(_)

validator_element(toks) == validator_value(toks)

validator_json(toks) == validator_element(toks)

\* match token
validator_value_of(toks, token) ==
    CASE token.kind \in {"String", "Number", "True", "False", "Null"} -> Pair(TRUE, 1)
      [] token.kind = "Punct" /\ token.char = "[" -> validator_array(toks)
      [] token.kind = "Punct" /\ token.char = "{" -> validator_object(toks)
      [] OTHER -> Pair(FALSE, 0)

\* match tokens.get(0)
validator_value(toks) ==
    IF toks = <<>> THEN Pair(FALSE, 0) ELSE validator_value_of(toks, toks[1])

\* (members.0 && followed_by_close_brace, members.1 + 2)
validator_object_of(toks, mems) ==
    IF mems.panic THEN Unwound
    ELSE Pair(mems.ok /\ PunctAt(toks, mems.len + 1, "}"), mems.len + 2)

validator_object(toks) ==
    IF PunctAt(toks, 0, "{") /\ PunctAt(toks, 1, "}") THEN Pair(TRUE, 2)
    ELSE IF PunctAt(toks, 0, "{") THEN validator_object_of(toks, validator_members(From(toks, 1)))
    ELSE Pair(FALSE, 0)

\* let members = members(&tokens[member.1 + 1..]);
validator_members_chain(mem, more) ==
    IF more.panic THEN Unwound
    ELSE IF ~more.ok THEN mem
    ELSE Pair(TRUE, mem.len + more.len + 1)

validator_members_of(toks, mem) ==
    IF mem.panic THEN Unwound
    ELSE IF ~mem.ok THEN Pair(FALSE, 0)
    ELSE IF ~PunctAt(toks, mem.len, ",") THEN mem
    ELSE validator_members_chain(mem, validator_members(From(toks, mem.len + 1)))

validator_members(toks) == validator_members_of(toks, validator_member(toks))

\* if begins_with_string && followed_by_colon && element.0
validator_member_of(toks, elem) ==
    IF elem.panic THEN Unwound
    ELSE IF toks[1].kind = "String" /\ PunctAt(toks, 1, ":") /\ elem.ok
    THEN Pair(TRUE, elem.len + 2)
    ELSE Pair(FALSE, 0)

\* let element = element(&tokens[2..]): the slice panics when tokens holds
\* fewer than two tokens
validator_member(toks) ==
    IF Len(toks) < 2 THEN Unwound
    ELSE validator_member_of(toks, validator_element(From(toks, 2)))

\* (elements.0 && followed_by_close_brace, elements.1 + 2)
validator_array_of(toks, elems) ==
    IF elems.panic THEN Unwound
    ELSE Pair(elems.ok /\ PunctAt(toks, elems.len + 1, "]"), elems.len + 2)

validator_array(toks) ==
    IF PunctAt(toks, 0, "[") /\ PunctAt(toks, 1, "]") THEN Pair(TRUE, 2)
    ELSE IF PunctAt(toks, 0, "[") THEN validator_array_of(toks, validator_elements(From(toks, 1)))
    ELSE Pair(FALSE, 0)

\* let elements = elements(&tokens[element.1 + 1..]);
validator_elements_chain(elem, more) ==
    IF more.panic THEN Unwound
    ELSE IF ~more.ok THEN elem
    ELSE Pair(TRUE, elem.len + more.len + 1)

validator_elements_of(toks, elem) ==
    IF elem.panic THEN Unwound
    ELSE IF ~elem.ok THEN Pair(FALSE, 0)
    ELSE IF ~PunctAt(toks, elem.len, ",") THEN elem
    ELSE validator_elements_chain(elem, validator_elements(From(toks, elem.len + 1)))

validator_elements(toks) == validator_elements_of(toks, validator_element(toks))

\* json.0 && json.1 == tokens.len(): what validate_json returns, or a panic
Returned(b) == [panic |-> FALSE, none |-> FALSE, returned |-> b]

validate_json_of(toks, res) ==
    IF res.panic THEN [panic |-> TRUE, none |-> FALSE, returned |-> FALSE]
    ELSE Returned(res.ok /\ res.len = Len(toks))

validate_json(toks) == validate_json_of(toks, validator_json(toks))

(***************************************************************************)
(* The calls of tokenize on one text: tokenize recurses on the suffix left *)
(* by each match_* function.                                               *)
(***************************************************************************)
NoneAsZero(end) == IF end = -1 THEN 0 ELSE end

NumberConsumed(s, end) ==
    IF end = -1 THEN 0
    ELSE IF LEADING_ZERO_RE(SubSeq(s, 1, end)) THEN 0
    ELSE end

ConsumedAt(s, char) ==
    CASE char = Quote -> NoneAsZero(STRING_RE(s))
      [] char = "t" -> IF StartsWith(s, <<"t", "r", "u", "e">>) THEN 4 ELSE 0
      [] char = "f" -> IF StartsWith(s, <<"f", "a", "l", "s", "e">>) THEN 5 ELSE 0
      [] char = "n" -> IF StartsWith(s, <<"n", "u", "l", "l">>) THEN 4 ELSE 0
      [] char \in {"-"} \cup Digits -> NumberConsumed(s, NUMBER_RE(s))
      [] char \in Whitespace -> 1
      [] char \in Puncts -> 1
      [] OTHER -> 0

\* How many characters the match_* function that tokenize(s) dispatches to
\* takes before it calls tokenize again; 0 when tokenize(s) returns there
\* (s is empty, or the match fails).
Consumed(s) == IF s = <<>> THEN 0 ELSE ConsumedAt(s, s[1])

RECURSIVE Calls(_, _)

CallsAfter(s, off, n) == IF n = 0 THEN <<off>> ELSE <<off>> \o Calls(s, off + n)

\* the offsets of s at which tokenize is called, in order, from offset off on
Calls(s, off) == CallsAfter(s, off, Consumed(From(s, off)))

(***************************************************************************)
(* types.rs: Display of Value.  A HashMap iterates in an order the program *)
(* does not choose, so the display of a value is a set of strings: one for *)
(* each order the maps in it can iterate in.                               *)
(***************************************************************************)
\* an indent of two spaces for each level
Indent_two(depth) == [i \in 1..(2 * depth) |-> " "]

\* " ".repeat(4).repeat(depth)
Indent(depth) == [i \in 1..(4 * depth) |-> " "]

display_string(string) == <<Quote>> \o string \o <<Quote>>

\* the digits ds times ten to the exp, written without an exponent
Positional(ds, n, exp) ==
    IF exp >= 0 THEN ds \o [i \in 1..exp |-> "0"]
    ELSE IF n > 0 - exp
    THEN SubSeq(ds, 1, n + exp) \o <<".">> \o SubSeq(ds, n + exp + 1, n)
    ELSE <<"0", ".">> \o [i \in 1..(0 - exp - n) |-> "0"] \o ds

PositionalDigits(ds, exp) == Positional(ds, Len(ds), exp)

Magnitude(number) ==
    IF number.class = "inf" THEN <<"i", "n", "f">>
    ELSE IF number.mant = 0 THEN <<"0">>
    ELSE PositionalDigits(DecimalDigits(number.mant), number.exp)

\* f64::to_string: the sign, then the shortest digits that read back as the
\* same double, written without an exponent
display_number(number) ==
    (IF number.neg THEN <<"-">> ELSE <<>>) \o Magnitude(number)

display_bool(bool) ==
    IF bool THEN <<"t", "r", "u", "e">> ELSE <<"f", "a", "l", "s", "e">>

display_null == <<"n", "u", "l", "l">>

RECURSIVE display(_, _), JoinMembers(_, _, _, _), JoinValues(_, _, _)

\* lines, each followed by ",\n" and one of rest
JoinLines(lines, rest) == {l \o <<",", "\n">> \o r : l \in lines, r \in rest}

\* format!(r#"{indent}"{key}" : {value}"#)
MemberLines(key, values, depth) ==
    {Indent(depth + 1) \o <<Quote>> \o key \o <<Quote, " ", ":", " ">> \o v : v \in values}

\* the members from the i-th of the order on, each formatted, joined by ",\n"
JoinMembers(map, order, i, depth) ==
    IF i = Len(order)
    THEN MemberLines(order[i], display(map[order[i]], depth + 1), depth)
    ELSE JoinLines(MemberLines(order[i], display(map[order[i]], depth + 1), depth),
                   JoinMembers(map, order, i + 1, depth))

display_object(map, depth) ==
    IF DOMAIN map = {} THEN {<<"{", "}">>}
    ELSE UNION {
           {<<"{", "\n">> \o m \o <<"\n">> \o Indent(depth) \o <<"}">> :
               m \in JoinMembers(map, order, 1, depth)}
           : order \in IterationOrders(DOMAIN map)}

\* format!("{indent}{value}")
ValueLines(values, depth) == {Indent(depth + 1) \o v : v \in values}

\* the values from the i-th on, each formatted, joined by ",\n"
JoinValues(arr, i, depth) ==
    IF i = Len(arr) THEN ValueLines(display(arr[i], depth + 1), depth)
    ELSE JoinLines(ValueLines(display(arr[i], depth + 1), depth),
                   JoinValues(arr, i + 1, depth))

display_array(arr, depth) ==
    IF Len(arr) = 0 THEN {<<"[", "]">>}
    ELSE {<<"[", "\n">> \o v \o <<"\n">> \o Indent(depth) \o <<"]">> :
             v \in JoinValues(arr, 1, depth)}

display(val, depth) ==
    CASE val.type = "String" -> {display_string(val.string)}
      [] val.type = "Number" -> {display_number(val.number)}
      [] val.type = "Boolean" -> {display_bool(val.bool)}
      [] val.type = "Object" -> display_object(val.members, depth)
      [] val.type = "Array" -> display_array(val.items, depth)
      [] val.type = "Null" -> {display_null}

\* impl Display for Value
to_string(val) == display(val, 0)

(***************************************************************************)
(* Bounded inputs of the parser: token vectors, as the unit tests of       *)
(* parser.rs build them.                                                   *)
(***************************************************************************)
MaxRaw == 4

MaxDocLen == 14

MaxEntries == 2

MaxDepth == 3

MaxOverrunLen == 12

MaxDropped == 3

One == Finite(FALSE, 1, 0)

Two == Finite(FALSE, 2, 0)

KeyA == StringTok(<<"a">>)

KeyB == StringTok(<<"b">>)

\* every kind of token, and every punctuation mark
RawAlphabet ==
    {Punct("{"), Punct("}"), Punct("["), Punct("]"), Punct(","), Punct(":"),
     KeyA, NumberTok(One), NullTok}

RECURSIVE SeqsOfLen(_, _)
\* all sequences over S of length n
SeqsOfLen(S, n) ==
    IF n = 0 THEN {<<>>}
    ELSE {Append(s, x) : s \in SeqsOfLen(S, n - 1), x \in S}

\* vec![...] of n tokens of any kind
RawTokens(n) == SeqsOfLen(RawAlphabet, n)

DocScalars == <<NumberTok(One), NumberTok(Two)>>

DocKeys == <<KeyA, KeyB>>

\* The documents are listed in sequences, a document once in a sequence,
\* and a table gives for each length n the documents of n tokens.
\* the sequence that a function on 1..n is
Tuple(f) == f \o <<>>

\* the table, with the sequence of every length worked out once
Table(f) == f @@ <<>>

\* the elements of a sequence
Range(seq) == {seq[k] : k \in 1..Len(seq)}

\* every x of xs, then sep, then every y of ys
Joined(xs, sep, ys) ==
    Tuple([k \in 1..(Len(xs) * Len(ys)) |->
              xs[((k - 1) \div Len(ys)) + 1] \o sep \o ys[((k - 1) % Len(ys)) + 1]])

\* every x of xs between the marks open and close
Bracketed(open, xs, close) ==
    Tuple([k \in 1..Len(xs) |-> <<Punct(open)>> \o xs[k] \o <<Punct(close)>>])

\* the scalar documents, in a table of the lengths 0..len
ScalarTable(len) ==
    Table([n \in 0..len |->
              IF n = 1 THEN Tuple([k \in 1..Len(DocScalars) |-> <<DocScalars[k]>>]) ELSE <<>>])

\* the members key ':' value of the values of a table
MemberTable(values) ==
    Table([n \in DOMAIN values |->
              IF n < 3 THEN <<>>
              ELSE Joined(Tuple([k \in 1..Len(DocKeys) |-> <<DocKeys[k]>>]),
                          <<Punct(":")>>, values[n - 2])])

RECURSIVE JoinUpTo(_, _, _, _)
\* the sequences of n tokens made of an item of at most i tokens, a comma,
\* and a list
JoinUpTo(items, rest, n, i) ==
    IF i < 1 THEN <<>>
    ELSE JoinUpTo(items, rest, n, i - 1)
         \o Joined(items[i], <<Punct(",")>>, rest[n - i - 1])

\* an item of the first table, a comma, and a list of the second
JoinTable(items, rest) ==
    Table([n \in DOMAIN items |-> JoinUpTo(items, rest, n, n - 2)])

MergeTable(items, joined) == Table([n \in DOMAIN items |-> items[n] \o joined[n]])

RECURSIVE ListTable(_, _)
\* the comma-separated lists of at least one and at most e items
ListTable(items, e) ==
    IF e = 1 THEN items
    ELSE MergeTable(items, JoinTable(items, ListTable(items, e - 1)))

\* the scalars, the arrays of the element lists and the objects of the
\* member lists
ContainerTable(scalars, elems, mems) ==
    Table([n \in DOMAIN scalars |->
              IF n < 2 THEN scalars[n]
              ELSE IF n = 2 THEN <<<<Punct("["), Punct("]")>>, <<Punct("{"), Punct("}")>>>>
              ELSE Bracketed("[", elems[n - 2], "]") \o Bracketed("{", mems[n - 2], "}")])

\* the documents whose values are the values of a table, or scalars
NestTable(scalars, values) ==
    ContainerTable(scalars, ListTable(values, MaxEntries),
                   ListTable(MemberTable(values), MaxEntries))

RECURSIVE DocTable(_, _)
\* the documents of the grammar nested at most d deep, by length
DocTable(d, len) ==
    IF d = 0 THEN ScalarTable(len)
    ELSE NestTable(ScalarTable(len), DocTable(d - 1, len))

RECURSIVE DocList(_, _)
\* the documents of a table of at most n tokens, in a sequence
DocList(table, n) == IF n = 0 THEN <<>> ELSE DocList(table, n - 1) \o table[n]

\* the documents of at most len tokens
DocsUpTo(len) == Range(DocList(DocTable(MaxDepth, len), len))

\* the documents cut short by their last token
Truncated(docs) == {SubSeq(doc, 1, Len(doc) - 1) : doc \in docs}

\* a document followed by one more token
Overrun(len) ==
    {Append(doc, x) : doc \in DocsUpTo(len), x \in {Punct("}"), Punct("]"), KeyA}}

(***************************************************************************)
(* Bounded inputs of json::parse: texts.                                   *)
(***************************************************************************)
MaxNumLen == 5

MaxKeywordLen == 5

MaxLexemes == 3

MaxAtoms == 3

MaxTextDocLen == 7

MaxFlatDocLen == 9

RECURSIVE Flatten(_)
\* the pieces of a sequence of texts, one after the other
Flatten(pieces) ==
    IF pieces = <<>> THEN <<>> ELSE Head(pieces) \o Flatten(Tail(pieces))

\* texts of n characters that begin like numbers
NumTexts(n) == SeqsOfLen({"-", "0", "1", ".", "e", "+"}, n)

\* texts of n characters over the letters of each keyword
KeywordTexts(n) ==
    SeqsOfLen({"t", "r", "u", "e"}, n) \cup SeqsOfLen({"f", "a", "l", "s", "e"}, n)
    \cup SeqsOfLen({"n", "u", "l"}, n)

Lexemes ==
    {<<"t", "r", "u", "e">>, <<"n", "u", "l", "l">>, <<"f", "a", "l", "s", "e">>,
     <<"1">>, <<Quote, "a", Quote>>, <<" ">>, <<"[">>, <<"]">>}

\* texts made of n lexemes, whitespace among them
LexemeTexts(n) == {Flatten(ls) : ls \in SeqsOfLen(Lexemes, n)}

Atoms ==
    {<<Quote>>, <<Backslash, Quote>>, <<Backslash, Backslash>>, <<Backslash, "n">>,
     <<Backslash, "x">>, <<Backslash>>,
     <<Backslash, "u", "0", "a", "F", "1">>, <<Backslash, "u", "0", "a", "F">>,
     <<Backslash, "u", "0", "a", "F", "g">>,
     <<"a">>, <<" ">>, <<"\t">>, <<"BS">>, <<"DEL">>}

\* segments of n atoms that begin with a quote
StringTexts(n) == {<<Quote>> \o Flatten(as) : as \in SeqsOfLen(Atoms, n)}

\* the two literals written for the two scalars of a document
Palettes ==
    {<<<<"1", "e", "9", "9", "9">>, <<Quote, "x", Quote>>>>,
     <<<<"-", "0">>, <<"1", ".", "5", "e", "1">>>>,
     <<<<"t", "r", "u", "e">>, <<"n", "u", "l", "l">>>>,
     <<<<Quote, Backslash, "n", Quote>>, <<"0", ".", "0", "1">>>>,
     <<<<Quote, "DEL", Quote>>, <<"f", "a", "l", "s", "e">>>>}

LexemeOf(tok, palette) ==
    CASE tok.kind = "Punct" -> <<tok.char>>
      [] tok.kind = "String" -> <<Quote>> \o tok.string \o <<Quote>>
      [] tok.kind = "Number" /\ tok.number = One -> palette[1]
      [] OTHER -> palette[2]

\* the text of a document, its scalars written as the palette says
Render(doc, palette) == Flatten([i \in DOMAIN doc |-> LexemeOf(doc[i], palette)])

IsOpener(tok) == tok.kind = "Punct" /\ tok.char \in {"{", "["}

IsCloser(tok) == tok.kind = "Punct" /\ tok.char \in {"}", "]"}

\* how many containers are open around the i-th token of the document
DepthAt(doc, i) ==
    Cardinality({j \in 1..(i - 1) : IsOpener(doc[j])})
    - Cardinality({j \in 1..(i - 1) : IsCloser(doc[j])})

IsKeyAt(doc, i) == i < Len(doc) /\ doc[i].kind = "String" /\ PunctAt(doc, i, ":")

\* two members of one object of the document have the same key
HasDuplicateKey(doc) ==
    \E i, j \in DOMAIN doc :
        /\ i < j
        /\ IsKeyAt(doc, i)
        /\ IsKeyAt(doc, j)
        /\ doc[i].string = doc[j].string
        /\ DepthAt(doc, i) = DepthAt(doc, j)
        /\ \A k \in i..j : DepthAt(doc, k) >= DepthAt(doc, i)

\* the longer documents that are objects of scalars: two members and more
FlatObjects ==
    {d \in DocsUpTo(MaxFlatDocLen) :
        /\ Len(d) > MaxTextDocLen
        /\ PunctAt(d, 0, "{")
        /\ \A i \in 2..Len(d) : ~IsOpener(d[i])}

\* the documents whose objects have unique keys
UniqueKeyDocs == {d \in DocsUpTo(MaxTextDocLen) \cup FlatObjects : ~HasDuplicateKey(d)}

\* syntactically valid JSON texts whose objects have unique keys
DocTexts == {Render(doc, palette) : doc \in UniqueKeyDocs, palette \in Palettes}

\* the text of a document with a space after every token
Spaced(doc, palette) ==
    Flatten([i \in DOMAIN doc |-> LexemeOf(doc[i], palette) \o <<" ">>])

\* the same documents, written with whitespace between the tokens
SpacedTexts == {Spaced(doc, palette) : doc \in UniqueKeyDocs, palette \in Palettes}

\* a document that lacks n tokens, from its i-th on
Dropped(doc, i, n) == SubSeq(doc, 1, i - 1) \o SubSeq(doc, i + n, Len(doc))

\* the texts given to json::parse
TextInputs ==
    \/ \E n \in 0..MaxNumLen : text \in NumTexts(n)
    \/ \E n \in 0..MaxKeywordLen : text \in KeywordTexts(n)
    \/ \E n \in 0..MaxLexemes : text \in LexemeTexts(n)
    \/ \E n \in 0..MaxAtoms : text \in StringTexts(n)
    \/ text \in DocTexts
    \/ text \in SpacedTexts

\* a key, a colon and a value of one or two tokens
MemberDocs ==
    {<<k, Punct(":")>> \o v :
        k \in Range(DocKeys),
        v \in {<<NumberTok(One)>>, <<NumberTok(Two)>>, <<Punct("["), Punct("]")>>}}

\* the objects of three such members
ThreeMembers ==
    {<<Punct("{")>> \o a \o <<Punct(",")>> \o b \o <<Punct(",")>> \o c \o <<Punct("}")>> :
        a \in MemberDocs, b \in MemberDocs, c \in MemberDocs}

\* the token vectors given to parse
TokenInputs(docs) ==
    \/ \E n \in 0..MaxRaw : tokens \in RawTokens(n)
    \/ tokens \in docs
    \/ tokens \in Truncated(docs)
    \/ tokens \in Overrun(MaxOverrunLen)
    \/ \E doc \in DocsUpTo(MaxOverrunLen) :
          \E i \in DOMAIN doc, n \in 1..MaxDropped : tokens = Dropped(doc, i, n)
    \/ tokens \in ThreeMembers

(***************************************************************************)
(* The state machine.  pc is the stage the input has reached: a text is    *)
(* tokenized and its tokens parsed (json::parse of mod.rs); the parsed     *)
(* value is printed, or the text is respaced, and the new text is parsed   *)
(* again.                                                                  *)
(***************************************************************************)
NoResult == [ok |-> FALSE, panic |-> FALSE, none |-> TRUE]

NoEdit == [op |-> "none", at |-> 0]

\* json::parse(text)
Init ==
    /\ TextInputs
    /\ tokens = <<>>
    /\ lexed = NoResult
    /\ calls = <<>>
    /\ parsed = NoResult
    /\ retext = <<>>
    /\ how = NoEdit
    /\ reparsed = NoResult
    /\ scanned = NoResult
    /\ valid = NoResult
    /\ pc = "text"

\* a unit test of parser.rs: parse(tokens)
InitTokens ==
    /\ TokenInputs(DocsUpTo(MaxDocLen))
    /\ text = <<>>
    /\ lexed = NoResult
    /\ calls = <<>>
    /\ parsed = NoResult
    /\ retext = <<>>
    /\ how = NoEdit
    /\ reparsed = NoResult
    /\ scanned = NoResult
    /\ valid = NoResult
    /\ pc = "tokens"

\* mod.rs: match tokenize(text) { Err(_) => Err(Error), Ok(tokens) => ... };
\* calls records where tokenize was called
Tokenize ==
    /\ pc = "text"
    /\ lexed' = tokenize(text)
    /\ calls' = Calls(text, 0)
    /\ tokens' = IF lexed'.ok THEN lexed'.val ELSE <<>>
    /\ parsed' = IF lexed'.ok THEN parsed ELSE Err
    /\ pc' = IF lexed'.ok THEN "tokens" ELSE "failed"
    /\ UNCHANGED <<text, retext, how, reparsed, scanned, valid>>

\* parser.rs: parse(tokens)
Parse ==
    /\ pc = "tokens"
    /\ parsed' = parse(tokens)
    /\ pc' = "parsed"
    /\ UNCHANGED <<text, tokens, lexed, calls, retext, how, reparsed, scanned, valid>>

\* types.rs: value.to_string()
Display ==
    /\ pc = "parsed"
    /\ parsed.ok
    /\ \E out \in to_string(parsed.val) :
          /\ retext' = out
          /\ how' = [op |-> "display", at |-> 0]
    /\ pc' = "retext"
    /\ UNCHANGED <<text, tokens, lexed, calls, parsed, reparsed, scanned, valid>>

\* the caller writes one more whitespace character between two tokens
InsertWhitespace ==
    /\ pc = "parsed"
    /\ \E i \in DOMAIN calls, w \in Whitespace :
          /\ retext' = SubSeq(text, 1, calls[i]) \o <<w>> \o From(text, calls[i])
          /\ how' = [op |-> "insert", at |-> calls[i]]
    /\ pc' = "retext"
    /\ UNCHANGED <<text, tokens, lexed, calls, parsed, reparsed, scanned, valid>>

\* the caller takes away one whitespace character between two tokens
RemoveWhitespace ==
    /\ pc = "parsed"
    /\ \E i \in DOMAIN calls :
          /\ CharAt(text, calls[i], Whitespace)
          /\ retext' = SubSeq(text, 1, calls[i]) \o From(text, calls[i] + 1)
          /\ how' = [op |-> "remove", at |-> calls[i]]
    /\ pc' = "retext"
    /\ UNCHANGED <<text, tokens, lexed, calls, parsed, reparsed, scanned, valid>>

\* json::parse(retext)
Reparse ==
    /\ pc = "retext"
    /\ reparsed' = json_parse(retext)
    /\ pc' = "done"
    /\ UNCHANGED <<text, tokens, lexed, calls, parsed, retext, how, scanned, valid>>

Next == Tokenize \/ Parse \/ Display \/ InsertWhitespace \/ RemoveWhitespace \/ Reparse

Spec == Init /\ [][Next]_vars

NextParse == Parse

SpecParse == InitTokens /\ [][NextParse]_vars

\* a unit test of parser/tokenizer.rs: tokenize_text(text)
TokenizeText ==
    /\ pc = "text"
    /\ scanned' = tokenize_text(text)
    /\ pc' = "scanned"
    /\ UNCHANGED <<text, tokens, lexed, calls, parsed, retext, how, reparsed, valid>>

NextTokenizeText == TokenizeText

SpecTokenizeText == Init /\ [][NextTokenizeText]_vars

\* a unit test of parser/validator.rs: validate_json(tokens)
ValidateJson ==
    /\ pc = "tokens"
    /\ valid' = validate_json(tokens)
    /\ pc' = "validated"
    /\ UNCHANGED <<text, tokens, lexed, calls, parsed, retext, how, reparsed, scanned>>

NextValidate == ValidateJson

SpecValidate == InitTokens /\ [][NextValidate]_vars

(***************************************************************************)
(* The grammar of the parser's documentation, as a recogniser written from *)
(* the productions and not from the parser:                                *)
(*   value    := string | number | true | false | null | array | object    *)
(*   array    := '[' ']' | '[' elements ']'                                *)
(*   elements := element (',' element)*                                    *)
(*   object   := '{' '}' | '{' members '}'                                 *)
(*   members  := member (',' member)*                                      *)
(*   member   := string ':' element                                        *)
(* Each operator gives the index at which the phrase that begins at index  *)
(* i ends, -1 when no such phrase begins there.                            *)
(***************************************************************************)
IsScalar(tok) == tok.kind \in {"String", "Number", "True", "False", "Null"}

RECURSIVE GValue(_, _), GList(_, _, _)

GClose(t, e, close) == IF e # -1 /\ PunctAt(t, e, close) THEN e + 1 ELSE -1

GValue(t, i) ==
    IF i >= Len(t) THEN -1
    ELSE IF IsScalar(t[i + 1]) THEN i + 1
    ELSE IF PunctAt(t, i, "[")
    THEN IF PunctAt(t, i + 1, "]") THEN i + 2 ELSE GClose(t, GList(t, i + 1, FALSE), "]")
    ELSE IF PunctAt(t, i, "{")
    THEN IF PunctAt(t, i + 1, "}") THEN i + 2 ELSE GClose(t, GList(t, i + 1, TRUE), "}")
    ELSE -1

GItem(t, i, mem) ==
    IF ~mem THEN GValue(t, i)
    ELSE IF i < Len(t) /\ t[i + 1].kind = "String" /\ PunctAt(t, i + 1, ":")
    THEN GValue(t, i + 2)
    ELSE -1

GMore(t, e, mem) ==
    IF e = -1 THEN -1 ELSE IF PunctAt(t, e, ",") THEN GList(t, e + 1, mem) ELSE e

GList(t, i, mem) == GMore(t, GItem(t, i, mem), mem)

\* the token sequence is generated by the production json
InGrammar(t) == GValue(t, 0) = Len(t)

RECURSIVE OpenAfter(_, _, _)
\* the openers still unmatched after the tokens from the i-th on, given the
\* stack of openers unmatched before it
OpenAfter(t, i, stack) ==
    IF i > Len(t) THEN stack
    ELSE IF IsOpener(t[i]) THEN OpenAfter(t, i + 1, <<t[i].char>> \o stack)
    ELSE IF /\ IsCloser(t[i])
            /\ stack # <<>>
            /\ <<Head(stack), t[i].char>> \in {<<"{", "}">>, <<"[", "]">>}
    THEN OpenAfter(t, i + 1, Tail(stack))
    ELSE OpenAfter(t, i + 1, stack)

\* some opening bracket or brace of the sequence has no matching closer
Unbalanced(t) == OpenAfter(t, 1, <<>>) # <<>>

\* the tokens of {"a":1,"a":2}
RepeatedKey ==
    <<Punct("{"), KeyA, Punct(":"), NumberTok(One), Punct(","),
      KeyA, Punct(":"), NumberTok(Two), Punct("}")>>

\* the tokens of {"a":{"b":{},"b":1} : the outer brace is never closed
UnclosedObject ==
    <<Punct("{"), KeyA, Punct(":"), Punct("{"), KeyB, Punct(":"), Punct("{"),
      Punct("}"), Punct(","), KeyB, Punct(":"), NumberTok(One), Punct("}")>>

\* C1: parse(tokens) returns Ok exactly for the token sequences that the
\* grammar production json generates, and Err for every other sequence.
C1_OkExactlyForGrammar == pc = "parsed" => (parsed.ok <=> InGrammar(tokens))

\* C1, where it fails: a sequence of the grammar that parse rejects.
C1_GrammarRejected ==
    pc = "parsed" /\ tokens = RepeatedKey /\ InGrammar(tokens) /\ parsed = Err

\* C1, on the sequences in which no object repeats a key: parse returns Ok
\* exactly for the sequences of the grammar.
C1_UniqueKeys ==
    pc = "parsed" /\ ~HasDuplicateKey(tokens) => (parsed.ok <=> InGrammar(tokens))

\* an object literal of two members with one key: { k : x , k : y }
TwoMembersOneKey(t) ==
    /\ Len(t) = 9
    /\ PunctAt(t, 0, "{") /\ PunctAt(t, 2, ":") /\ PunctAt(t, 4, ",")
    /\ PunctAt(t, 6, ":") /\ PunctAt(t, 8, "}")
    /\ t[2].kind = "String" /\ t[6] = t[2]
    /\ t[4].kind = "Number" /\ t[8].kind = "Number"

\* C2: when an object literal repeats a key, parse succeeds and the Object
\* maps the key to the value of the later occurrence: {"a":1,"a":2} parses
\* to an Object in which "a" maps to 2.
C2_LaterValueWins ==
    pc = "parsed" /\ InGrammar(tokens) /\ HasDuplicateKey(tokens) =>
        /\ parsed.ok
        /\ TwoMembersOneKey(tokens) =>
              parsed.val = ObjectVal([k \in {tokens[2].string} |-> NumberVal(tokens[8].number)])

\* C2, where it fails: the tokens of {"a":1,"a":2} are rejected.
C2_RepeatedKeyRejected ==
    pc = "parsed" /\ tokens = RepeatedKey /\ HasDuplicateKey(tokens) /\ ~parsed.ok

\* C3: for every token sequence in which some opening bracket or brace has
\* no matching closer, parse returns Err.
C3_UnbalancedRejected == pc = "parsed" /\ Unbalanced(tokens) => ~parsed.ok

\* C3, where it fails: a sequence whose first brace is never closed parses.
C3_UnbalancedAccepted ==
    pc = "parsed" /\ tokens = UnclosedObject /\ Unbalanced(tokens) /\ parsed.ok

\* C3, on the sequences in which no object repeats a key: an unbalanced
\* sequence is rejected.
C3_UniqueKeys ==
    pc = "parsed" /\ Unbalanced(tokens) /\ ~HasDuplicateKey(tokens) => ~parsed.ok

\* the sequence is one complete value followed by one or more further tokens
HasTrailingTokens(t) == GValue(t, 0) \in 1..(Len(t) - 1)

\* C5: parse returns Ok only when the outermost value consumes the entire
\* token sequence: one complete value followed by one or more further tokens
\* is rejected.
C5_WholeSequence ==
    pc = "parsed" =>
        /\ parsed.ok => json(tokens).ok /\ json(tokens).val.len = Len(tokens)
        /\ HasTrailingTokens(tokens) => parsed = Err

\* C5: '{' '}' followed by a string token has been parsed.
C5_Overrun ==
    /\ pc = "parsed"
    /\ tokens = <<Punct("{"), Punct("}"), KeyA>>
    /\ HasTrailingTokens(tokens)
    /\ json(tokens).ok

(***************************************************************************)
(* Properties of the tokenizer and of json::parse.  A position of a text   *)
(* is an offset at which tokenize is called: calls lists them.             *)
(***************************************************************************)
Parsed == pc \in {"parsed", "retext", "done"}

\* the call at calls[i] is at a character that is not whitespace
AtToken(i) == calls[i] < Len(text) /\ text[calls[i] + 1] \notin Whitespace

\* how many of the first i calls are at a character that is not whitespace:
\* when tokenize returns Ok, the index of the token the i-th call emits
TokensUpTo(i) == Cardinality({j \in 1..i : AtToken(j)})

Keyword(c) ==
    CASE c = "t" -> <<"t", "r", "u", "e">>
      [] c = "f" -> <<"f", "a", "l", "s", "e">>
      [] c = "n" -> <<"n", "u", "l", "l">>

KeywordToken(c) ==
    CASE c = "t" -> TrueTok
      [] c = "f" -> FalseTok
      [] c = "n" -> NullTok

KeywordValue(c) ==
    CASE c = "t" -> BooleanVal(TRUE)
      [] c = "f" -> BooleanVal(FALSE)
      [] c = "n" -> NullVal

\* a number literal begins at offset p whose integer part is a 0 followed
\* by one or more further digits
LeadingZeroAt(s, p) ==
    LET q == IF CharAt(s, p, {"-"}) THEN p + 1 ELSE p
    IN  CharAt(s, q, {"0"}) /\ CharAt(s, q + 1, Digits)

\* C6: tokenize rejects every number literal whose integer part is a leading
\* 0 followed by one or more further digits, with or without a leading '-'.
C6_LeadingZeroRejected ==
    pc # "text" /\ (\E i \in DOMAIN calls : LeadingZeroAt(text, calls[i])) => lexed = Err

\* C6, where it fails: 00 is tokenized to a Number token.
C6_ZerosAccepted ==
    /\ pc # "text"
    /\ text = <<"0", "0">>
    /\ LeadingZeroAt(text, 0)
    /\ lexed = Ok(<<NumberTok(Finite(FALSE, 0, 0))>>)

\* C6, on the literals in which a digit other than 0 follows the leading
\* zeros (0123, -01, 007): tokenize rejects them.
C6_ZerosThenNonZero ==
    pc # "text" =>
        \A i \in DOMAIN calls :
            LET q == IF CharAt(text, calls[i], {"-"}) THEN calls[i] + 1 ELSE calls[i]
            IN  /\ CharAt(text, q, {"0"})
                /\ \E k \in 1..Len(text) :
                      /\ \A j \in 0..(k - 1) : CharAt(text, q + j, {"0"})
                      /\ CharAt(text, q + k, Digits \ {"0"})
                => lexed = Err /\ i = Len(calls)

\* the text from offset p on starts with '-' or a digit but is an incomplete
\* number: a '-' with no digit after it, digits then '.' with no digit after
\* it, or digits (and a fraction) then e or E and an optional sign with no
\* digit after it
IncompleteNumberAt(s, p) ==
    LET q == IF CharAt(s, p, {"-"}) THEN p + 1 ELSE p
        n == DigitRun(s, q)
        m == IF CharAt(s, q + n, {"."}) THEN DigitRun(s, q + n + 1) ELSE 0
        r == IF m > 0 THEN q + n + 1 + m ELSE q + n
        sg == IF CharAt(s, r + 1, {"+", "-"}) THEN 1 ELSE 0
    IN  /\ CharAt(s, p, {"-"} \cup Digits)
        /\ \/ n = 0
           \/ CharAt(s, q + n, {"."}) /\ m = 0
           \/ CharAt(s, r, {"e", "E"}) /\ ~CharAt(s, r + 1 + sg, Digits)

\* C7: tokenize returns Err for every text with an incomplete number; the
\* call that fails is the one at the number (nothing matches, or the match
\* has a leading zero) or the next one, at the '.', 'e' or 'E' left after
\* the matched prefix, for which the dispatcher has no rule.
C7_IncompleteNumberRejected ==
    pc # "text" =>
        \A i \in DOMAIN calls :
            IncompleteNumberAt(text, calls[i]) =>
                /\ lexed = Err
                /\ \/ i = Len(calls)
                   \/ /\ i + 1 = Len(calls)
                      /\ CharAt(text, calls[i + 1], {".", "e", "E"})

\* C7: 1e+ has been tokenized: 1 matched, and e was handed back.
C7_IncompleteExponent ==
    /\ pc = "failed"
    /\ text = <<"1", "e", "+">>
    /\ IncompleteNumberAt(text, 0)
    /\ calls = <<0, 1>>

\* C8: where the next character is t, f or n, tokenize emits True, False or
\* Null exactly when the text there starts with true, false or null, and
\* goes on after the keyword; any other continuation makes tokenize return
\* Err there.  Parsed alone, the tokens yield Boolean(true), Boolean(false)
\* and Null.
C8_KeywordsExact ==
    pc # "text" =>
        /\ \A i \in DOMAIN calls :
              CharAt(text, calls[i], {"t", "f", "n"}) =>
                  LET c == text[calls[i] + 1]
                  IN  IF StartsWith(From(text, calls[i]), Keyword(c))
                      THEN /\ i < Len(calls)
                           /\ calls[i + 1] = calls[i] + Len(Keyword(c))
                           /\ lexed.ok => lexed.val[TokensUpTo(i)] = KeywordToken(c)
                      ELSE lexed = Err /\ i = Len(calls)
        /\ lexed.ok =>
              \A i \in 1..(Len(calls) - 1) :
                  /\ AtToken(i)
                  /\ lexed.val[TokensUpTo(i)].kind \in {"True", "False", "Null"}
                  => /\ CharAt(text, calls[i], {"t", "f", "n"})
                     /\ lexed.val[TokensUpTo(i)] = KeywordToken(text[calls[i] + 1])
        /\ Parsed /\ text \in {Keyword("t"), Keyword("f"), Keyword("n")} =>
              parsed = Ok(KeywordValue(text[1]))

\* C8: false has been tokenized and parsed.
C8_FalseParsed ==
    /\ pc = "parsed"
    /\ text = Keyword("f")
    /\ lexed = Ok(<<FalseTok>>)
    /\ parsed = Ok(BooleanVal(FALSE))

\* C8: the strict prefix fals has been rejected.
C8_PrefixRejected == pc = "failed" /\ text = <<"f", "a", "l", "s">> /\ lexed = Err

\* the whitespace character at offset p stands between a number literal and
\* a digit: without it the two are one literal
JoinsNumber(s, p) == p > 0 /\ s[p] \in Digits /\ CharAt(s, p + 1, Digits)

\* C9: whitespace contributes no token, and inserting or removing whitespace
\* between the tokens of a text never changes the result of json::parse.
C9_WhitespaceNeverMatters ==
    /\ lexed.ok => Len(lexed.val) = TokensUpTo(Len(calls))
    /\ pc = "done" /\ how.op \in {"insert", "remove"} => reparsed = parsed

\* C9, amended: whitespace contributes no token; inserting a whitespace
\* character between the tokens of a text that tokenizes changes neither the
\* tokens nor the result of json::parse, and removing one changes neither
\* unless it stands between a number and a digit (1 2 becomes 12).
C9_WhitespaceBetweenTokens ==
    /\ lexed.ok => Len(lexed.val) = TokensUpTo(Len(calls))
    /\ pc = "done" /\ how.op = "insert" =>
          reparsed = parsed /\ tokenize(retext) = lexed
    /\ pc = "done" /\ how.op = "remove" /\ ~JoinsNumber(text, how.at) =>
          reparsed = parsed /\ tokenize(retext) = lexed

\* C9: a whitespace character between two tokens of a document has been
\* removed, and the text parsed again.
C9_Removed ==
    /\ pc = "done"
    /\ how.op = "remove"
    /\ ~JoinsNumber(text, how.at)
    /\ how.at > 0
    /\ parsed.ok
    /\ Len(tokens) > 1
    /\ Len(retext) = Len(text) - 1

\* C9: whitespace has been written between two tokens of a document.
C9_Inserted ==
    /\ pc = "done"
    /\ how.op = "insert"
    /\ how.at > 0
    /\ how.at < Len(text)
    /\ parsed.ok

\* C9, where the unamended claim fails: 1 1 is rejected, 11 is a number.
C9_NumbersJoined ==
    /\ pc = "done"
    /\ how.op = "remove"
    /\ text = <<"1", " ", "1">>
    /\ parsed = Err
    /\ reparsed.ok

\* the C0 control characters (U+0000 to U+001F) of the model's alphabet
C0Controls == {"\n", "\r", "\t", "BS"}

RECURSIVE SegmentEnd(_, _)
\* where the string body that continues at offset i ends: after the first
\* quote that is not escaped, if everything before it is a two-character
\* escape, \u and four hexadecimal digits, or a character other than quote,
\* backslash and the C0 controls; -1 otherwise
SegmentEnd(s, i) ==
    IF i >= Len(s) THEN -1
    ELSE IF s[i + 1] = Quote THEN i + 1
    ELSE IF s[i + 1] = Backslash
    THEN IF CharAt(s, i + 1, {Quote, Backslash, "/", "b", "f", "n", "r", "t"})
         THEN SegmentEnd(s, i + 2)
         ELSE IF CharAt(s, i + 1, {"u"}) /\ \A k \in 2..5 : CharAt(s, i + k, HexDigits)
         THEN SegmentEnd(s, i + 6)
         ELSE -1
    ELSE IF s[i + 1] \in C0Controls THEN -1
    ELSE SegmentEnd(s, i + 1)

\* the segment that begins with the quote at calls[i] is accepted exactly
\* when it is a string, and then it is the token emitted there
StringAt(i) ==
    LET end == SegmentEnd(text, calls[i] + 1)
    IN  IF end # -1
        THEN /\ i < Len(calls)
             /\ calls[i + 1] = end
             /\ lexed.ok =>
                   lexed.val[TokensUpTo(i)] = StringTok(SubSeq(text, calls[i] + 2, end - 1))
        ELSE lexed = Err /\ i = Len(calls)

\* C10: tokenize accepts a segment beginning with a quote if and only if, up
\* to the first unescaped closing quote, its body is made of the recognized
\* escapes, \u and four hexadecimal digits, and characters other than quote,
\* backslash and the C0 controls; otherwise tokenize returns Err.
C10_StringSegments ==
    pc # "text" =>
        \A i \in DOMAIN calls : CharAt(text, calls[i], {Quote}) => StringAt(i)

\* C10, where it fails: a string holding U+007F, which is no C0 control.
C10_DelRejected ==
    /\ pc = "failed"
    /\ text = <<Quote, "DEL", Quote>>
    /\ SegmentEnd(text, 1) = 3
    /\ lexed = Err

\* C10, on the texts without U+007F: a segment is accepted exactly when it
\* is a string.
C10_WithoutDel ==
    pc # "text" /\ (\A k \in DOMAIN text : text[k] # "DEL") =>
        \A i \in DOMAIN calls : CharAt(text, calls[i], {Quote}) => StringAt(i)

\* C4: for every syntactically valid JSON text whose objects have unique
\* keys, json::parse succeeds, and json::parse of the printed value succeeds
\* and yields an equal value.
C4_RoundTrip ==
    text \in DocTexts =>
        /\ pc # "failed"
        /\ Parsed => parsed.ok
        /\ pc = "done" /\ how.op = "display" => reparsed = parsed

\* C4, where it fails: 1e999 parses to the infinite double, which is
\* printed as inf, and inf is no JSON text.
C4_InfinityPrinted ==
    /\ pc = "done"
    /\ how.op = "display"
    /\ text = <<"1", "e", "9", "9", "9">>
    /\ text \in DocTexts
    /\ parsed = Ok(NumberVal(Infinite(FALSE)))
    /\ retext = <<"i", "n", "f">>
    /\ reparsed = Err

\* C4, on the documents without U+007F whose numbers are finite: the round
\* trip holds.
C4_FiniteWithoutDel ==
    /\ text \in DocTexts /\ pc = "failed" => \E k \in DOMAIN text : text[k] = "DEL"
    /\ text \in DocTexts /\ Parsed => parsed.ok
    /\ /\ text \in DocTexts
       /\ pc = "done"
       /\ how.op = "display"
       /\ \A k \in DOMAIN tokens :
             tokens[k].kind = "Number" => tokens[k].number.class = "finite"
       => reparsed = parsed

\* sub is a run of consecutive characters of s
Contains(s, sub) ==
    \E k \in 0..(Len(s) - Len(sub)) : SubSeq(s, k + 1, k + Len(sub)) = sub

\* the tokens of an object of one member: { key : scalar }
OneMember(t) ==
    /\ Len(t) = 5
    /\ PunctAt(t, 0, "{") /\ PunctAt(t, 2, ":") /\ PunctAt(t, 4, "}")
    /\ t[2].kind = "String"

\* C11: the payload of the String token of an accepted string literal is
\* the raw characters between its opening quote and the matching closing
\* quote, escapes kept as their two or six characters; the String value and
\* the object key built from the token hold the same payload, and the
\* serializer prints it back between quotes unchanged.
C11_RawPayload ==
    /\ pc # "text" /\ lexed.ok =>
          \A i \in DOMAIN calls :
              CharAt(text, calls[i], {Quote}) =>
                  /\ SegmentEnd(text, calls[i] + 1) # -1
                  /\ lexed.val[TokensUpTo(i)] =
                        StringTok(SubSeq(text, calls[i] + 2, SegmentEnd(text, calls[i] + 1) - 1))
    /\ Parsed /\ Len(tokens) = 1 /\ tokens[1].kind = "String" =>
          parsed = Ok(StringVal(tokens[1].string))
    /\ Parsed /\ OneMember(tokens) /\ parsed.ok =>
          DOMAIN parsed.val.members = {tokens[2].string}
    /\ pc \in {"retext", "done"} /\ how.op = "display" =>
          \A k \in DOMAIN tokens :
              tokens[k].kind = "String" =>
                  Contains(retext, <<Quote>> \o tokens[k].string \o <<Quote>>)

\* C11: the literal "\n" (quote, backslash, n, quote) has been tokenized,
\* parsed and printed: the payload is the two characters backslash and n.
C11_EscapeKept ==
    /\ pc = "done"
    /\ how.op = "display"
    /\ text = <<Quote, Backslash, "n", Quote>>
    /\ tokens = <<StringTok(<<Backslash, "n">>)>>
    /\ parsed = Ok(StringVal(<<Backslash, "n">>))
    /\ retext = text

\* C11: an object of one member has been printed, its key between quotes.
C11_KeyPrinted ==
    /\ pc = "retext"
    /\ how.op = "display"
    /\ OneMember(tokens)
    /\ parsed.ok
    /\ Contains(retext, <<Quote>> \o tokens[2].string \o <<Quote, " ", ":">>)

(***************************************************************************)
(* The lexemes of the tokenizer's grammar, as a scan written from the      *)
(* grammar and not from the tokenizer: a punctuation mark, a keyword, a    *)
(* string, or the longest number: an optional '-', the digit 0 or a digit  *)
(* 1-9 and further digits, an optional '.' and digits, an optional e or E, *)
(* sign and digits.  A 0 followed by further digits is no number.          *)
(***************************************************************************)
\* where the number that begins at offset p ends, -1 when none begins there
GrammarNumberEnd(s, p) ==
    LET q == IF CharAt(s, p, {"-"}) THEN p + 1 ELSE p
        n == DigitRun(s, q)
        m == IF CharAt(s, q + n, {"."}) THEN DigitRun(s, q + n + 1) ELSE 0
        r == IF m > 0 THEN q + n + 1 + m ELSE q + n
        sg == IF CharAt(s, r + 1, {"+", "-"}) THEN 1 ELSE 0
        x == IF CharAt(s, r, {"e", "E"}) THEN DigitRun(s, r + 1 + sg) ELSE 0
    IN  IF n = 0 \/ (n > 1 /\ CharAt(s, q, {"0"})) THEN -1
        ELSE IF x > 0 THEN r + 1 + sg + x
        ELSE r

\* where the lexeme that begins at offset p ends, -1 when none begins there
LexemeEnd(s, p) ==
    IF CharAt(s, p, Puncts) THEN p + 1
    ELSE IF CharAt(s, p, {"t", "f", "n"})
    THEN IF StartsWith(From(s, p), Keyword(s[p + 1])) THEN p + Len(Keyword(s[p + 1])) ELSE -1
    ELSE IF CharAt(s, p, {Quote}) THEN SegmentEnd(s, p + 1)
    ELSE IF CharAt(s, p, {"-"} \cup Digits) THEN GrammarNumberEnd(s, p)
    ELSE -1

RECURSIVE LexemesFrom(_, _)
\* the lexemes of s from offset p on, each as <<first offset, end offset>>,
\* whitespace skipped; ok is FALSE when some character begins no lexeme
LexemesFrom(s, p) ==
    IF p >= Len(s) THEN [ok |-> TRUE, val |-> <<>>]
    ELSE IF s[p + 1] \in Whitespace THEN LexemesFrom(s, p + 1)
    ELSE IF LexemeEnd(s, p) = -1 THEN [ok |-> FALSE, val |-> <<>>]
    ELSE LET rest == LexemesFrom(s, LexemeEnd(s, p))
         IN  [ok |-> rest.ok,
              val |-> IF rest.ok THEN <<<<p, LexemeEnd(s, p)>>>> \o rest.val ELSE <<>>]

\* the token of a lexeme
TokenOf(lexeme) ==
    IF lexeme[1] \in Puncts THEN Punct(lexeme[1])
    ELSE IF lexeme[1] \in {"t", "f", "n"} THEN KeywordToken(lexeme[1])
    ELSE IF lexeme[1] = Quote THEN StringTok(SubSeq(lexeme, 2, Len(lexeme) - 1))
    ELSE NumberTok(ParseF64(lexeme))

\* tokenize gives Ok exactly when the text splits into lexemes, with one
\* token for each lexeme, in the order of the text
SplitsAs(s, result, lexemes) ==
    /\ result.ok <=> lexemes.ok
    /\ result.ok =>
          /\ Len(result.val) = Len(lexemes.val)
          /\ \A k \in DOMAIN result.val :
                result.val[k] = TokenOf(SubSeq(s, lexemes.val[k][1] + 1, lexemes.val[k][2]))

\* C12: tokenize returns Ok(ts) exactly when the whole text splits into
\* valid lexemes and whitespace, ts holding one token for each lexeme in
\* the order of the text; when some position reached begins no valid
\* lexeme the result is Err for the whole text, and json::parse returns Err.
C12_AllOrNothing ==
    pc # "text" =>
        /\ SplitsAs(text, lexed, LexemesFrom(text, 0))
        /\ ~lexed.ok => pc = "failed" /\ parsed = Err

\* C12, where it fails: -00 splits into no lexemes, and tokenize gives one
\* Number token for it.
C12_ZerosOneToken ==
    /\ pc # "text"
    /\ text = <<"-", "0", "0">>
    /\ ~LexemesFrom(text, 0).ok
    /\ lexed.ok
    /\ Len(lexed.val) = 1

\* C12, on the texts without U+007F in which no number begins with a 0
\* followed by a further digit: tokenize is all-or-nothing and keeps the
\* order of the text.
C12_WithoutZerosAndDel ==
    /\ pc # "text"
    /\ \A k \in DOMAIN text : text[k] # "DEL"
    /\ \A i \in DOMAIN calls : ~LeadingZeroAt(text, calls[i])
    => /\ SplitsAs(text, lexed, LexemesFrom(text, 0))
       /\ ~lexed.ok => pc = "failed" /\ parsed = Err

\* C12: the valid lexeme true comes first and a character that begins no
\* lexeme follows it: the whole text is rejected.
C12_LateFailure ==
    /\ pc = "failed"
    /\ text = <<"t", "r", "u", "e", "u">>
    /\ lexed = Err

\* the opener of the container that the i-th token of t stands in, "" when
\* it stands in none
EnclosingOpener(t, i) ==
    LET stack == OpenAfter(SubSeq(t, 1, i - 1), 1, <<>>)
    IN  IF stack = <<>> THEN "" ELSE Head(stack)

\* a member lacks its key: a ':' that no string precedes
LacksKey(t) ==
    \E i \in DOMAIN t : PunctAt(t, i - 1, ":") /\ (i = 1 \/ t[i - 1].kind # "String")

\* a member lacks its ':': where an object expects a member, after its '{'
\* or after a ',' in it, a string that no ':' follows
LacksColon(t) ==
    \E i \in DOMAIN t :
        /\ i > 1
        /\ t[i].kind = "String"
        /\ \/ PunctAt(t, i - 2, "{")
           \/ PunctAt(t, i - 2, ",") /\ EnclosingOpener(t, i) = "{"
        /\ ~PunctAt(t, i, ":")

\* a member lacks its value: a ':' that no token follows, or a closer, a ','
\* or a ':'
LacksValue(t) ==
    \E i \in DOMAIN t :
        /\ PunctAt(t, i - 1, ":")
        /\ \/ i = Len(t)
           \/ \E c \in {"}", "]", ",", ":"} : PunctAt(t, i, c)

C13_MissingColon ==
    /\ pc = "parsed"
    /\ Len(tokens) > 6
    /\ PunctAt(tokens, 0, "{")
    /\ ~LacksKey(tokens)
    /\ ~LacksValue(tokens)
    /\ LacksColon(tokens)
    /\ \E i \in DOMAIN tokens : PunctAt(tokens, i - 1, ",") /\ EnclosingOpener(tokens, i) = "{"

\* C13: '{' ':' string '}', a member without its key, has been parsed.
C13_MissingKey ==
    /\ pc = "parsed"
    /\ tokens = <<Punct("{"), Punct(":"), KeyA, Punct("}")>>
    /\ LacksKey(tokens)

(***************************************************************************)
(* The layout of the serializer, written from its description: what a      *)
(* value at nesting depth d renders as.  An object renders in any order of *)
(* its keys, so the renderings of a value are a set.                       *)
(***************************************************************************)
Spaces(n) == [i \in 1..n |-> " "]

RECURSIVE Rendering(_, _), EntriesFrom(_, _)

\* the entries from the i-th on, each a set of renderings, separated by ",\n"
EntriesFrom(entries, i) ==
    IF i = Len(entries) THEN entries[i]
    ELSE {e \o <<",", "\n">> \o r : e \in entries[i], r \in EntriesFrom(entries, i + 1)}

\* the opening delimiter, a newline, the entries, a newline, and the closing
\* delimiter after 4 * d spaces
Delimited(open, entries, close, d) ==
    {<<open, "\n">> \o e \o <<"\n">> \o Spaces(4 * d) \o <<close>> : e \in EntriesFrom(entries, 1)}

\* the entry of an array: 4 * (d + 1) spaces and the value
ArrayEntry(val, d) == {Spaces(4 * (d + 1)) \o r : r \in Rendering(val, d + 1)}

\* the entry of an object: 4 * (d + 1) spaces and "key" : value
ObjectEntry(key, val, d) ==
    {Spaces(4 * (d + 1)) \o <<Quote>> \o key \o <<Quote, " ", ":", " ">> \o r :
        r \in Rendering(val, d + 1)}

Rendering(val, d) ==
    IF val.type = "Array"
    THEN IF val.items = <<>> THEN {<<"[", "]">>}
         ELSE Delimited("[", [i \in DOMAIN val.items |-> ArrayEntry(val.items[i], d)], "]", d)
    ELSE IF val.type = "Object"
    THEN IF DOMAIN val.members = {} THEN {<<"{", "}">>}
         ELSE UNION {Delimited("{", [i \in DOMAIN o |-> ObjectEntry(o[i], val.members[o[i]], d)],
                               "}", d)
                     : o \in IterationOrders(DOMAIN val.members)}
    ELSE display(val, d)

C14_TwoMembers ==
    /\ pc = "retext"
    /\ how.op = "display"
    /\ parsed.val.type = "Object"
    /\ Cardinality(DOMAIN parsed.val.members) = 2
    /\ Contains(retext, <<",", "\n", " ", " ", " ", " ", Quote>>)

\* C14: an empty object in an array has been printed as {}.
C14_EmptyObject ==
    /\ pc = "retext"
    /\ how.op = "display"
    /\ parsed = Ok(ArrayVal(<<ObjectVal(EmptyMap)>>))
    /\ retext = <<"[", "\n", " ", " ", " ", " ", "{", "}", "\n", "]">>

RECURSIVE ElementsFrom(_, _)
\* the elements e1, ..., en of the list of values of the grammar that begins
\* at offset i of t, each as its own token sequence
ElementsFrom(t, i) ==
    IF GValue(t, i) = -1 THEN <<>>
    ELSE IF PunctAt(t, GValue(t, i), ",")
    THEN <<SubSeq(t, i + 1, GValue(t, i))>> \o ElementsFrom(t, GValue(t, i) + 1)
    ELSE <<SubSeq(t, i + 1, GValue(t, i))>>

\* the array has the elements, in their order
HoldsInOrder(val, elems) ==
    /\ val.type = "Array"
    /\ Len(val.items) = Len(elems)
    /\ \A i \in DOMAIN elems : parse(elems[i]) = Ok(val.items[i])

\* C15: for every accepted token sequence '[' e1 ',' ... ',' en ']', parse
\* yields an Array of exactly n elements, the i-th being the value parsed
\* from ei, in the order of the source.
C15_ArrayOrder ==
    pc = "parsed" /\ parsed.ok /\ PunctAt(tokens, 0, "[") /\ InGrammar(tokens) =>
        HoldsInOrder(parsed.val, ElementsFrom(tokens, 1))

\* C15: '[' 1 ',' '[' 2 ']' ']' has been parsed: a number, then an array.
C15_NumberThenArray ==
    /\ pc = "parsed"
    /\ tokens = <<Punct("["), NumberTok(One), Punct(","), Punct("["), NumberTok(Two),
                  Punct("]"), Punct("]")>>
    /\ ElementsFrom(tokens, 1) = <<<<NumberTok(One)>>, <<Punct("["), NumberTok(Two), Punct("]")>>>>
    /\ parsed = Ok(ArrayVal(<<NumberVal(One), ArrayVal(<<NumberVal(Two)>>)>>))

\* how many tokens the construct that begins s has: 1 for a scalar, and for
\* a container the tokens up to the closer that matches its opener, found
\* by counting openers and closers; 0 when nothing closes it
ConstructLen(s) ==
    IF ~IsOpener(s[1]) THEN 1
    ELSE IF \E j \in 2..Len(s) : DepthAt(s, j + 1) = 0
    THEN CHOOSE j \in 2..Len(s) : DepthAt(s, j + 1) = 0 /\ \A k \in 2..(j - 1) : DepthAt(s, k + 1) > 0
    ELSE 0

RECURSIVE Leaves(_)
\* the scalar values stored in a value
Leaves(val) ==
    IF val.type = "Array" THEN UNION {Leaves(val.items[i]) : i \in DOMAIN val.items}
    ELSE IF val.type = "Object" THEN UNION {Leaves(val.members[k]) : k \in DOMAIN val.members}
    ELSE {val}

\* the scalar values that the tokens of s give
LeavesOf(s) == {value_of(<<s[i]>>, s[i]).val.value : i \in {j \in DOMAIN s : IsScalar(s[j])}}

\* the Node reports the length of the construct at the head of s, and its
\* values come from the tokens of the construct
ExactNode(s, node) ==
    /\ node.len = ConstructLen(s)
    /\ Leaves(node.value) \subseteq LeavesOf(SubSeq(s, 1, node.len))

\* C16: every Ok Node that value, array or object returns reports in len
\* the number of tokens of the construct it recognized: for a container
\* tokens[len-1] is the closer that matches the opener at tokens[0], and the
\* values of the Node were parsed from tokens[0..len].
C16_ExactLen ==
    pc = "parsed" =>
        \A i \in 0..(Len(tokens) - 1) :
            value(From(tokens, i)).ok =>
                ExactNode(From(tokens, i), value(From(tokens, i)).val)

\* C16, where it fails: for the tokens of {"a":{},"a":1} object returns a
\* Node of 5 tokens that ends at the closer of the inner object and holds
\* the 1 of the eighth token.
C16_ShortNode ==
    /\ pc = "parsed"
    /\ tokens = <<Punct("{"), KeyA, Punct(":"), Punct("{"), Punct("}"), Punct(","),
                  KeyA, Punct(":"), NumberTok(One), Punct("}")>>
    /\ ConstructLen(tokens) = 10
    /\ object(tokens) = Ok(Node(ObjectVal([k \in {<<"a">>} |-> NumberVal(One)]), 5))

\* C16, on the sequences in which no object repeats a key: every Ok Node
\* reports the length of its construct.
C16_UniqueKeys ==
    pc = "parsed" /\ ~HasDuplicateKey(tokens) =>
        \A i \in 0..(Len(tokens) - 1) :
            value(From(tokens, i)).ok =>
                ExactNode(From(tokens, i), value(From(tokens, i)).val)

\* after the item at the head of s and the comma that follows it, the rest
\* of s is no list: the production returns the one item, and the length of
\* the list is the length of the item, the comma left out
ElementsFallBack(s) ==
    LET elem == element(s)
    IN  /\ elem.ok
        /\ PunctAt(s, elem.val.len, ",")
        /\ ~elements(From(s, elem.val.len + 1)).ok
        => LET list == elements(s)
           IN  list = Ok(<<elem.val>>) /\ ArrayElemLen(list.val) = elem.val.len

MembersFallBack(s) ==
    LET mem == member(s)
    IN  /\ mem.ok
        /\ PunctAt(s, mem.val.node.len + 2, ",")
        /\ ~members(From(s, mem.val.node.len + 2 + 1)).ok
        => LET list == members(s)
           IN  list = Ok(MapFrom(mem.val)) /\ ObjectMemLen(list.val) = mem.val.node.len + 2

\* a comma of an array that no value of the grammar follows, or a comma of
\* an object that no member of the grammar follows
DanglingComma(t) ==
    \E i \in DOMAIN t :
        /\ PunctAt(t, i - 1, ",")
        /\ \/ EnclosingOpener(t, i) = "[" /\ GValue(t, i) = -1
           \/ EnclosingOpener(t, i) = "{" /\ GItem(t, i, TRUE) = -1

C17_ObjectDangling ==
    /\ pc = "parsed"
    /\ tokens = <<Punct("{"), KeyA, Punct(":"), NumberTok(One), Punct(","), Punct("}")>>
    /\ DanglingComma(tokens)
    /\ members(From(tokens, 1)) = Ok(MapFrom([key |-> <<"a">>, node |-> Node(NumberVal(One), 1)]))
    /\ parsed = Err

\* C18: validate_json is total: it returns for every token vector, with no
\* slice out of range, and it returns false for the lone '{' and for the
\* lone '['.
C18_Total ==
    pc = "validated" =>
        /\ ~valid.panic
        /\ tokens \in {<<Punct("{")>>, <<Punct("[")>>} => ~valid.returned

\* C18, where it fails: validate_json has been called with the lone '{';
\* member was given no token at all and its slice from 2 on panicked.
C18_LoneBrace ==
    /\ pc = "validated"
    /\ tokens = <<Punct("{")>>
    /\ validator_member(From(tokens, 1)) = Unwound
    /\ valid.panic

\* C18: validate_json returns false for the lone '['.
C18_LoneBracket ==
    pc = "validated" /\ tokens = <<Punct("[")>> => valid = Returned(FALSE)

\* C18: validate_json returns true for every sequence of the grammar, and
\* it never returns true for another sequence.
C18_DocumentsAccepted ==
    pc = "validated" =>
        /\ InGrammar(tokens) => valid = Returned(TRUE)
        /\ ~valid.panic /\ valid.returned => InGrammar(tokens)

\* C18: validate_json has been called with the tokens of {"a":1,}: the
\* member after the comma was given the '}' alone and its slice panicked.
C18_PanicReached ==
    /\ pc = "validated"
    /\ tokens = <<Punct("{"), KeyA, Punct(":"), NumberTok(One), Punct(","), Punct("}")>>
    /\ validator_member(From(tokens, 5)) = Unwound
    /\ valid.panic

\* C19: tokenize_text returns Err for a text that begins with a number whose
\* integer part is a 0 followed by further digits; it does not split the
\* number into the 0 and the digits after it.
C19_TextLeadingZeroRejected ==
    pc = "scanned" /\ LeadingZeroAt(text, 0) => scanned = Err

\* C19, where it fails: 01 is tokenized to the numbers 0 and 1.
C19_SplitInTwo ==
    /\ pc = "scanned"
    /\ text = <<"0", "1">>
    /\ LeadingZeroAt(text, 0)
    /\ parser_NUMBER_RE(text) = 1
    /\ scanned = Ok(<<NumberTok(Finite(FALSE, 0, 0)), NumberTok(One)>>)

\* C19: NUMBER_RE never matches more than the 0 of such a number, so
\* LEADING_ZERO_RE never rejects it: the 0 becomes a token of its own, and
\* the text is accepted exactly when what follows the 0 is.
C19_ZeroSplitOff ==
    pc = "scanned" /\ LeadingZeroAt(text, 0) =>
        LET q == SignEnd(text) + 1
            rest == tokenize_text(From(text, q))
        IN  /\ parser_NUMBER_RE(text) = q
            /\ ~LEADING_ZERO_RE(SubSeq(text, 1, q))
            /\ scanned.ok = rest.ok
            /\ scanned.ok =>
                  scanned.val = <<NumberTok(ParseF64(SubSeq(text, 1, q)))>> \o rest.val

\* C19: on the texts that hold no number with a leading zero, tokenize_text
\* returns what tokenize of the json module returns.
C19_SameElsewhere ==
    pc = "scanned" /\ (\A i \in DOMAIN Calls(text, 0) : ~LeadingZeroAt(text, Calls(text, 0)[i]))
        => scanned = tokenize(text)

\* the list of members after the first member of s and its comma
MoreMembers(s) == members(From(s, member(s).val.node.len + 2 + 1))

\* members merges the first member of s with the list after it
Merges(s) ==
    /\ member(s).ok
    /\ PunctAt(s, member(s).val.node.len + 2, ",")
    /\ MoreMembers(s).ok

\* object folds and collects the members of s
Folds(s) == PunctAt(s, 0, "{") /\ ~PunctAt(s, 1, "}") /\ members(From(s, 1)).ok

\* C20: parse is a function of its tokens: in whatever order the HashMaps
\* iterate, the merge of members gives one map (the one members returns),
\* the fold of object gives one mem_len, and the collect of object gives one
\* map of values; so the outcome, the length and the value kept for a key do
\* not depend on the order.
C20_OrderNeverMatters ==
    pc = "parsed" =>
        \A i \in 0..Len(tokens) :
            LET s == From(tokens, i)
                map == members(From(s, 1)).val
            IN  /\ Merges(s) =>
                      ChainCollects(member(s).val, MoreMembers(s).val) = {members(s).val}
                /\ Folds(s) =>
                      /\ MemLens(map) = {ObjectMemLen(map)}
                      /\ ObjectCollects(map) = {[k \in DOMAIN map |-> map[k].value]}
                      /\ object(s).ok =>
                            object(s).val = Node(ObjectVal([k \in DOMAIN map |-> map[k].value]),
                                                 ObjectMemLen(map) + 2)

\* C20: the tokens of {"a":1,"b":[],"a":2} have been parsed: the list after
\* the first member is a map of two entries of different lengths, which can
\* iterate in two orders, and one of its keys is the key of the first
\* member.
C20_TwoOrders ==
    /\ pc = "parsed"
    /\ tokens = <<Punct("{"), KeyA, Punct(":"), NumberTok(One), Punct(","),
                  KeyB, Punct(":"), Punct("["), Punct("]"), Punct(","),
                  KeyA, Punct(":"), NumberTok(Two), Punct("}")>>
    /\ Merges(From(tokens, 1))
    /\ Cardinality(IterationOrders(DOMAIN MoreMembers(From(tokens, 1)).val)) = 2
    /\ members(From(tokens, 1)).val[<<"a">>] = Node(NumberVal(Two), 1)
    /\ members(From(tokens, 1)).val[<<"b">>].len = 2
    /\ Folds(tokens)

\* no production panics on the tokens s: a panic of member is a panic of
\* members, and a panic of value, array or object is a panic of elements
Returns(s) == members(s) # Panic /\ elements(s) # Panic

\* C21: parse is total: on every token sequence it returns Ok or Err; no
\* production, on any suffix of the tokens, takes a slice that starts past
\* the end of its tokens or subtracts 1 from the length of an empty map or
\* vector.
C21_ParseTotal ==
    pc = "parsed" =>
        /\ parsed # Panic
        /\ parsed.ok \/ parsed = Err
        /\ \A i \in 0..Len(tokens) : Returns(From(tokens, i))

\* C21: '{' "a" ':' has been parsed, a sequence that ends right after a
\* colon: member took the empty slice tokens[2..] and parse returned Err.
C21_EndsAfterColon ==
    /\ pc = "parsed"
    /\ tokens = <<Punct("{"), KeyA, Punct(":")>>
    /\ InRange(From(tokens, 1), 2)
    /\ member(From(tokens, 1)) = Err
    /\ parsed = Err

\* C21: '[' 1 ',' has been parsed, a sequence that ends right after a
\* comma: elements took the empty slice after the comma and returned the 1.
C21_EndsAfterComma ==
    /\ pc = "parsed"
    /\ tokens = <<Punct("["), NumberTok(One), Punct(",")>>
    /\ InRange(From(tokens, 1), 2)
    /\ elements(From(tokens, 1)) = Ok(<<Node(NumberVal(One), 1)>>)
    /\ parsed = Err

\* C21: the lone '{', the lone key and '{' ':' have been parsed: a sequence
\* that ends right after an opener, one that ends right after a key, and a
\* punctuation where a key is expected.
C21_EndsAfterOpener ==
    /\ pc = "parsed"
    /\ tokens \in {<<Punct("{")>>, <<Punct("{"), KeyA>>, <<Punct("{"), Punct(":")>>,
                   <<Punct("["), Punct("}")>>}
    /\ parsed = Err

\* how many characters a step that begins with char may drop
DropsOf(s, char) ==
    CASE char \in Whitespace \cup Puncts -> {1}
      [] char \in {"t", "n"} -> {4}
      [] char = "f" -> {5}
      [] char \in {"-"} \cup Digits -> 1..Len(s)
      [] char = Quote -> 2..Len(s)
      [] OTHER -> {}

\* C22: tokenize terminates: every call either returns or calls tokenize on
\* a strictly shorter suffix (whitespace and punctuation drop 1 character,
\* true and null 4, false 5, a number at least 1, a string at least 2), the
\* calls are those steps one after the other, and tokenize calls itself at
\* most as many times as the text has characters.
C22_Terminates ==
    pc # "text" =>
        /\ \A i \in DOMAIN calls :
              LET s == From(text, calls[i])
                  step == Step(s)
              IN  /\ calls[i] <= Len(text)
                  /\ step.recurses =>
                        /\ step.drop \in DropsOf(s, s[1])
                        /\ i < Len(calls)
                        /\ calls[i + 1] = calls[i] + step.drop
                  /\ ~step.recurses => i = Len(calls)
        /\ LET n == RecursiveSteps(text, Len(text) + 1)
           IN  n <= Len(text) /\ n = Len(calls) - 1

\* C22: the text [1] has been tokenized: every step dropped one character,
\* and tokenize called itself as many times as the text has characters.
C22_BoundAttained ==
    /\ pc # "text"
    /\ text = <<"[", "1", "]">>
    /\ calls = <<0, 1, 2, 3>>
    /\ RecursiveSteps(text, Len(text) + 1) = Len(text)

\* C22: a text has been tokenized in which a string of more than two
\* characters, a number of more than one character and a keyword were each
\* dropped in one step.
C22_LongSteps ==
    /\ pc # "text"
    /\ \E i \in DOMAIN calls :
          Step(From(text, calls[i])).drop > 2 /\ text[calls[i] + 1] = Quote
    /\ \E i \in DOMAIN calls :
          Step(From(text, calls[i])).drop > 1 /\ text[calls[i] + 1] \in Digits
    /\ \E i \in DOMAIN calls : Step(From(text, calls[i])).drop = 4

====
